---- MODULE Spec2Model ----
(***************************************************************************)
(* The three report scripts of src/scrapers: county_communications_scraper *)
(* (CountyOfficialsScraper), legal_documents_scraper (LegalDocuments-      *)
(* Scraper) and mvc_joc_tracker (MVPContractorTracker).  Each holds        *)
(* literal data, composes it with a timestamp into a report, writes the    *)
(* report as JSON to a file and prints it.                                  *)
(***************************************************************************)
EXTENDS Integers, Sequences, FiniteSets, TLC

(***************************************************************************)
(* Python values.  A str is a sequence of segments: a run of printable     *)
(* ASCII characters, or one character given by its code point (the source  *)
(* holds one non-ASCII character, U+2013 in a county thread subject).  A   *)
(* dict is the sequence of its (key, value) items in insertion order.      *)
(* Ref(f) is a reference to the object held in field f of the instance:    *)
(* the same object, not a copy.                                            *)
(***************************************************************************)
Ascii(text) == [k |-> "ascii", v |-> text]
Chr(n) == [k |-> "chr", c |-> n]
StrOf(segs) == [t |-> "str", s |-> segs]
Str(text) == StrOf(<<Ascii(text)>>)
PyInt(n) == [t |-> "int", n |-> n]
PyBool(b) == [t |-> "bool", b |-> b]
List(xs) == [t |-> "list", items |-> xs]
DictOf(kvs) == [t |-> "dict", items |-> kvs]
Dict(kvs) == DictOf([i \in 1..Len(kvs) |-> <<<<Ascii(kvs[i][1])>>, kvs[i][2]>>])
Ref(f) == [t |-> "ref", to |-> f]

(***************************************************************************)
(* datetime.now().isoformat().  The wall clock is counted in half seconds  *)
(* from 2026-01-10 12:00:00; isoformat() prints YYYY-MM-DDTHH:MM:SS and    *)
(* appends .ffffff only when the microsecond is not zero.                  *)
(***************************************************************************)
Digit(d) == SubSeq("0123456789", d + 1, d + 1)

TwoDigits(n) == Digit((n \div 10) % 10) \o Digit(n % 10)

SixDigits(n) ==
  Digit((n \div 100000) % 10) \o Digit((n \div 10000) % 10) \o Digit((n \div 1000) % 10)
    \o Digit((n \div 100) % 10) \o Digit((n \div 10) % 10) \o Digit(n % 10)

Second(clock) == clock \div 2

Microsecond(clock) == (clock % 2) * 500000

isoformat(clock) ==
  Str("2026-01-10T12:00:" \o TwoDigits(Second(clock))
        \o (IF Microsecond(clock) = 0 THEN "" ELSE "." \o SixDigits(Microsecond(clock))))

(***************************************************************************)
(* json.dumps(obj, indent=2) and json.dump(obj, fp, indent=2): the         *)
(* standard encoder with its defaults (ensure_ascii=True, sort_keys=False, *)
(* separators (',', ': ') because indent is given).  The result is the     *)
(* text of the document, one character per byte since it is all ASCII.     *)
(***************************************************************************)
HexDigit(d) == SubSeq("0123456789abcdef", d + 1, d + 1)

Hex4(n) ==
  HexDigit((n \div 4096) % 16) \o HexDigit((n \div 256) % 16)
    \o HexDigit((n \div 16) % 16) \o HexDigit(n % 16)

\* ESCAPE_DCT for the two printable characters the encoder escapes
EscapeChar(c) ==
  IF c = "\"" THEN "\\\""
  ELSE IF c = "\\" THEN "\\\\"
  ELSE c

\* a character outside ASCII written as '?' (an encoder with
\* errors='replace') instead of its \uXXXX escape
EscapeCodePoint_replace(n) == "?"

\* replace() of py_encode_basestring_ascii for a character outside ' '..'~'
EscapeCodePoint(n) ==
  IF n = 8 THEN "\\b"
  ELSE IF n = 9 THEN "\\t"
  ELSE IF n = 10 THEN "\\n"
  ELSE IF n = 12 THEN "\\f"
  ELSE IF n = 13 THEN "\\r"
  ELSE IF n < 65536 THEN "\\u" \o Hex4(n)
  ELSE "\\u" \o Hex4(55296 + (((n - 65536) \div 1024) % 1024))
         \o "\\u" \o Hex4(56320 + ((n - 65536) % 1024))

RECURSIVE EscapeRange(_, _, _)
EscapeRange(text, lo, hi) ==
  IF lo > hi THEN ""
  ELSE IF lo = hi THEN EscapeChar(SubSeq(text, lo, lo))
  ELSE LET mid == (lo + hi) \div 2
       IN  EscapeRange(text, lo, mid) \o EscapeRange(text, mid + 1, hi)

EscapeSegment(seg) ==
  IF seg.k = "ascii" THEN EscapeRange(seg.v, 1, Len(seg.v)) ELSE EscapeCodePoint(seg.c)

RECURSIVE EscapeSegments(_, _)
EscapeSegments(segs, i) ==
  IF i > Len(segs) THEN "" ELSE EscapeSegment(segs[i]) \o EscapeSegments(segs, i + 1)

py_encode_basestring_ascii(segs) == "\"" \o EscapeSegments(segs, 1) \o "\""

Spaces(n) == SubSeq("                                        ", 1, n)

\* '\n' + _indent * _current_indent_level, with _indent = ' ' * 2
newline_indent(level) == "\n" \o Spaces(2 * level)

item_separator(level) == "," \o newline_indent(level)

key_separator == ": "

\* _iterencode: obj at nesting level `level`; heap holds the instance's
\* fields, which a Ref names
RECURSIVE iterencode(_, _, _), iterencode_items(_, _, _, _, _)
iterencode(o, level, heap) ==
  CASE o.t = "str" -> py_encode_basestring_ascii(o.s)
    [] o.t = "none" -> "null"
    [] o.t = "bool" -> IF o.b THEN "true" ELSE "false"
    [] o.t = "int" -> ToString(o.n)
    [] o.t = "ref" -> iterencode(heap[o.to], level, heap)
    [] o.t = "list" ->
         IF Len(o.items) = 0 THEN "[]"
         ELSE "[" \o newline_indent(level + 1)
                \o iterencode_items(o, 1, level + 1, heap, FALSE)
                \o newline_indent(level) \o "]"
    [] o.t = "dict" ->
         IF Len(o.items) = 0 THEN "{}"
         ELSE "{" \o newline_indent(level + 1)
                \o iterencode_items(o, 1, level + 1, heap, TRUE)
                \o newline_indent(level) \o "}"

iterencode_items(o, i, level, heap, keyed) ==
  LET item == IF keyed
              THEN py_encode_basestring_ascii(o.items[i][1]) \o key_separator
                     \o iterencode(o.items[i][2], level, heap)
              ELSE iterencode(o.items[i], level, heap)
  IN  IF i = Len(o.items) THEN item
      ELSE item \o item_separator(level) \o iterencode_items(o, i + 1, level, heap, keyed)

dumps(obj, heap) == iterencode(obj, 0, heap)

\* a value the encoder has no encoding for (a set, a datetime): default()
\* raises TypeError when _iterencode comes to it
Unserializable == [t |-> "object"]

\* _iterencode as json.dump drives it: the text of the chunks it yields,
\* and whether it then raised TypeError instead of coming to the end.  The
\* bracket, the separators and the key before a value are yielded before
\* the value is looked at.
RECURSIVE iterencode_chunks(_, _, _), iterencode_items_chunks(_, _, _, _, _)
iterencode_chunks(o, level, heap) ==
  CASE o.t = "object" -> [text |-> "", raised |-> TRUE]
    [] o.t = "ref" -> iterencode_chunks(heap[o.to], level, heap)
    [] o.t \in {"list", "dict"} ->
         IF Len(o.items) = 0 THEN [text |-> iterencode(o, level, heap), raised |-> FALSE]
         ELSE LET inner == iterencode_items_chunks(o, 1, level + 1, heap, o.t = "dict")
                  opening == (IF o.t = "dict" THEN "{" ELSE "[") \o newline_indent(level + 1)
                  closing == newline_indent(level) \o (IF o.t = "dict" THEN "}" ELSE "]")
              IN  IF inner.raised THEN [text |-> opening \o inner.text, raised |-> TRUE]
                  ELSE [text |-> opening \o inner.text \o closing, raised |-> FALSE]
    [] OTHER -> [text |-> iterencode(o, level, heap), raised |-> FALSE]

iterencode_items_chunks(o, i, level, heap, keyed) ==
  LET head == IF keyed THEN py_encode_basestring_ascii(o.items[i][1]) \o key_separator ELSE ""
      item == iterencode_chunks(IF keyed THEN o.items[i][2] ELSE o.items[i], level, heap)
  IN  IF item.raised \/ i = Len(o.items) THEN [text |-> head \o item.text, raised |-> item.raised]
      ELSE LET rest == iterencode_items_chunks(o, i + 1, level, heap, keyed)
           IN  [text |-> head \o item.text \o item_separator(level) \o rest.text,
                raised |-> rest.raised]

(***************************************************************************)
(* json.loads: the standard decoder, used to read a written file back.     *)
(* A result is [ok, v, i]: whether the text parsed, the value, and the     *)
(* index after it.  The reports hold no floats; a float is refused.        *)
(***************************************************************************)
CharAt(s, i) == IF i >= 1 /\ i <= Len(s) THEN SubSeq(s, i, i) ELSE ""

\* chr(n) for the printable ASCII characters 32..126.  A TLA+ string cannot
\* hold U+0060, which no string of the three scripts contains; it is kept
\* as a code point.
PrintableLow == " !\"#$%&'()*+,-./0123456789:;<=>?@ABCDEFGHIJKLMNOPQRSTUVWXYZ[\\]^_"

PrintableHigh == "abcdefghijklmnopqrstuvwxyz{|}~"

IsPrintable(n) == n >= 32 /\ n <= 126 /\ n # 96

PrintableChar(n) ==
  IF n < 96 THEN SubSeq(PrintableLow, n - 31, n - 31) ELSE SubSeq(PrintableHigh, n - 96, n - 96)

\* s[i:].startswith(word)
StartsWith(s, i, word) ==
  i >= 1 /\ i + Len(word) - 1 <= Len(s) /\ SubSeq(s, i, i + Len(word) - 1) = word

ParseFail == [ok |-> FALSE, v |-> [t |-> "none"], i |-> 0]

Parsed(v, i) == [ok |-> TRUE, v |-> v, i |-> i]

IsDigit(c) == \E d \in 0..9 : Digit(d) = c

DigitValue(c) == CHOOSE d \in 0..9 : Digit(d) = c

IsHex(c) == \E d \in 0..15 : HexDigit(d) = c \/ SubSeq("0123456789ABCDEF", d + 1, d + 1) = c

HexValue(c) ==
  CHOOSE d \in 0..15 : HexDigit(d) = c \/ SubSeq("0123456789ABCDEF", d + 1, d + 1) = c

IsWhitespace(c) == c = " " \/ c = "\n" \/ c = "\t" \/ c = "\r"

RECURSIVE SkipWhitespace(_, _)
SkipWhitespace(s, i) == IF IsWhitespace(CharAt(s, i)) THEN SkipWhitespace(s, i + 1) ELSE i

\* a character added to the segments of a str: printable ASCII joins the
\* run before it, any other character stands alone
AppendChar(segs, n) ==
  IF IsPrintable(n)
  THEN LET c == PrintableChar(n)
       IN  IF Len(segs) > 0 /\ segs[Len(segs)].k = "ascii"
           THEN [segs EXCEPT ![Len(segs)] = Ascii(@.v \o c)]
           ELSE Append(segs, Ascii(c))
  ELSE Append(segs, Chr(n))

AppendRun(segs, run) ==
  IF run = "" THEN segs
  ELSE IF Len(segs) > 0 /\ segs[Len(segs)].k = "ascii"
  THEN [segs EXCEPT ![Len(segs)] = Ascii(@.v \o run)]
  ELSE Append(segs, Ascii(run))

HasHex4(s, i) == \A j \in i..(i + 3) : IsHex(CharAt(s, j))

Hex4Value(s, i) ==
  4096 * HexValue(CharAt(s, i)) + 256 * HexValue(CharAt(s, i + 1))
    + 16 * HexValue(CharAt(s, i + 2)) + HexValue(CharAt(s, i + 3))

\* the end of the run of unescaped characters that starts at i
RECURSIVE RunEnd(_, _)
RunEnd(s, i) ==
  LET c == CharAt(s, i)
  IN  IF c = "" \/ c = "\"" \/ c = "\\" \/ c = "\n" \/ c = "\t" \/ c = "\r" THEN i
      ELSE RunEnd(s, i + 1)

\* py_scanstring: i is the index after the opening quote
RECURSIVE ScanString(_, _, _)
ScanString(s, i, segs) ==
  LET j == RunEnd(s, i)
      sofar == AppendRun(segs, SubSeq(s, i, j - 1))
      c == CharAt(s, j)
      e == CharAt(s, j + 1)
  IN  IF c = "\"" THEN Parsed(StrOf(sofar), j + 1)
      ELSE IF c # "\\" THEN ParseFail
      ELSE IF e = "\"" THEN ScanString(s, j + 2, AppendChar(sofar, 34))
      ELSE IF e = "\\" THEN ScanString(s, j + 2, AppendChar(sofar, 92))
      ELSE IF e = "/" THEN ScanString(s, j + 2, AppendChar(sofar, 47))
      ELSE IF e = "b" THEN ScanString(s, j + 2, AppendChar(sofar, 8))
      ELSE IF e = "f" THEN ScanString(s, j + 2, AppendChar(sofar, 12))
      ELSE IF e = "n" THEN ScanString(s, j + 2, AppendChar(sofar, 10))
      ELSE IF e = "r" THEN ScanString(s, j + 2, AppendChar(sofar, 13))
      ELSE IF e = "t" THEN ScanString(s, j + 2, AppendChar(sofar, 9))
      ELSE IF e = "u" /\ HasHex4(s, j + 2)
      THEN LET hi == Hex4Value(s, j + 2)
           IN  IF hi >= 55296 /\ hi <= 56319 /\ CharAt(s, j + 6) = "\\"
                    /\ CharAt(s, j + 7) = "u" /\ HasHex4(s, j + 8)
                    /\ Hex4Value(s, j + 8) >= 56320 /\ Hex4Value(s, j + 8) <= 57343
               THEN ScanString(s, j + 12,
                      AppendChar(sofar, 65536 + (hi - 55296) * 1024
                                          + (Hex4Value(s, j + 8) - 56320)))
               ELSE ScanString(s, j + 6, AppendChar(sofar, hi))
      ELSE ParseFail

RECURSIVE ScanDigits(_, _, _)
ScanDigits(s, i, n) ==
  IF IsDigit(CharAt(s, i)) THEN ScanDigits(s, i + 1, 10 * n + DigitValue(CharAt(s, i)))
  ELSE [n |-> n, i |-> i]

ScanNumber(s, i) ==
  LET neg == CharAt(s, i) = "-"
      first == IF neg THEN i + 1 ELSE i
      r == ScanDigits(s, first, 0)
      c == CharAt(s, r.i)
  IN  IF ~IsDigit(CharAt(s, first)) \/ c = "." \/ c = "e" \/ c = "E" THEN ParseFail
      ELSE IF CharAt(s, first) = "0" /\ r.i > first + 1 THEN ParseFail
      ELSE Parsed(PyInt(IF neg THEN 0 - r.n ELSE r.n), r.i)

\* dict(pairs): a repeated key keeps its first position and its last value
SetItem(items, key, value) ==
  IF \E k \in 1..Len(items) : items[k][1] = key
  THEN [k \in 1..Len(items) |-> IF items[k][1] = key THEN <<key, value>> ELSE items[k]]
  ELSE Append(items, <<key, value>>)

RECURSIVE scan_once(_, _), JSONObject(_, _, _), JSONArray(_, _, _)
scan_once(s, i) ==
  LET c == CharAt(s, i)
  IN  IF c = "\"" THEN ScanString(s, i + 1, <<>>)
      ELSE IF c = "{"
      THEN LET j == SkipWhitespace(s, i + 1)
           IN  IF CharAt(s, j) = "}" THEN Parsed(DictOf(<<>>), j + 1)
               ELSE JSONObject(s, j, <<>>)
      ELSE IF c = "["
      THEN LET j == SkipWhitespace(s, i + 1)
           IN  IF CharAt(s, j) = "]" THEN Parsed(List(<<>>), j + 1)
               ELSE JSONArray(s, j, <<>>)
      ELSE IF StartsWith(s, i, "true") THEN Parsed(PyBool(TRUE), i + 4)
      ELSE IF StartsWith(s, i, "false") THEN Parsed(PyBool(FALSE), i + 5)
      ELSE IF StartsWith(s, i, "null") THEN Parsed([t |-> "none"], i + 4)
      ELSE ScanNumber(s, i)

\* i is at the first character of a key
JSONObject(s, i, items) ==
  IF CharAt(s, i) # "\"" THEN ParseFail
  ELSE LET key == ScanString(s, i + 1, <<>>)
           colon == SkipWhitespace(s, key.i)
           value == scan_once(s, SkipWhitespace(s, colon + 1))
           after == SkipWhitespace(s, value.i)
           sofar == SetItem(items, key.v.s, value.v)
       IN  IF ~key.ok THEN ParseFail
           ELSE IF CharAt(s, colon) # ":" THEN ParseFail
           ELSE IF ~value.ok THEN ParseFail
           ELSE IF CharAt(s, after) = "}" THEN Parsed(DictOf(sofar), after + 1)
           ELSE IF CharAt(s, after) = ","
           THEN JSONObject(s, SkipWhitespace(s, after + 1), sofar)
           ELSE ParseFail

\* i is at the first character of an element
JSONArray(s, i, items) ==
  LET value == scan_once(s, i)
      after == SkipWhitespace(s, value.i)
      sofar == Append(items, value.v)
  IN  IF ~value.ok THEN ParseFail
      ELSE IF CharAt(s, after) = "]" THEN Parsed(List(sofar), after + 1)
      ELSE IF CharAt(s, after) = ","
      THEN JSONArray(s, SkipWhitespace(s, after + 1), sofar)
      ELSE ParseFail

\* JSONDecoder.decode: one value, whitespace around it, nothing after it
loads(s) ==
  LET r == scan_once(s, SkipWhitespace(s, 1))
  IN  IF r.ok /\ SkipWhitespace(s, r.i) = Len(s) + 1 THEN r ELSE ParseFail

(***************************************************************************)
(* Reading values.                                                         *)
(***************************************************************************)
Key(text) == <<Ascii(text)>>

Keys(v) == {v.items[i][1] : i \in 1..Len(v.items)}

HasKey(v, text) == v.t = "dict" /\ \E i \in 1..Len(v.items) : v.items[i][1] = Key(text)

\* v[text], None when v has no such key
Get(v, text) ==
  IF HasKey(v, text)
  THEN v.items[CHOOSE i \in 1..Len(v.items) : v.items[i][1] = Key(text)][2]
  ELSE [t |-> "none"]

\* v without the item of key text
Without(v, text) ==
  LET keep == {i \in 1..Len(v.items) : v.items[i][1] # Key(text)}
      nth(n) == CHOOSE i \in keep : Cardinality({j \in keep : j < i}) = n - 1
  IN  DictOf([n \in 1..Cardinality(keep) |-> v.items[nth(n)]])

\* v with every reference replaced by the object it names
RECURSIVE Resolve(_, _)
Resolve(v, heap) ==
  CASE v.t = "ref" -> Resolve(heap[v.to], heap)
    [] v.t = "list" -> List([i \in 1..Len(v.items) |-> Resolve(v.items[i], heap)])
    [] v.t = "dict" ->
         DictOf([i \in 1..Len(v.items) |-> <<v.items[i][1], Resolve(v.items[i][2], heap)>>])
    [] OTHER -> v

\* needle occurs in text
Occurs(text, needle) ==
  \E i \in 1..(Len(text) - Len(needle) + 1) : SubSeq(text, i, i + Len(needle) - 1) = needle

(***************************************************************************)
(* The data of the three classes: the fields their constructors set and   *)
(* the mappings their extract operations return, in source order.         *)
(***************************************************************************)
\* CountyOfficialsScraper.__init__ (county_communications_scraper.py:19-69): the instance fields after construction
CountyOfficialsScraper_init ==
  [
    county |-> Str("Contra Costa County"),
    county_location |-> Str("Martinez, CA 94553"),
    pw_department |-> Str("Public Works Department"),
    pw_address |-> Str("255 Glacier Drive, Martinez, CA 94553"),
    officials |-> Dict(<<
      <<"Jeff Acuff", Dict(<<
        <<"title", Str("Division Manager")>>,
        <<"department", Str("Capital Projects Management")>>,
        <<"office_phone", Str("925-655-3130")>>,
        <<"mobile", Str("925-595-6001")>>,
        <<"email", Str("Jeff.Acuff@pw.cccounty.us")>>,
        <<"decision_authority", Str("JOC contract assignments, payment approval")>>,
        <<"role_notes", Str("Primary contact for MVP Construction concerns (2022-2025)")>>
      >>)>>,
      <<"Ramesh Kanzaria", Dict(<<
        <<"title", Str("Capital Projects Division Manager")>>,
        <<"department", Str("Capital Projects Management")>>,
        <<"entity", Str("Contra Costa County")>>,
        <<"role_notes", Str("Historical PM for MVP projects, now retired")>>
      >>)>>,
      <<"Warren Lai", Dict(<<
        <<"title", Str("Deputy Public Works Director")>>,
        <<"department", Str("Public Works")>>,
        <<"email", Str("warren.lai@pw.cccounty.us")>>,
        <<"entity", Str("Contra Costa County")>>
      >>)>>,
      <<"Brendan Havenar-Daughton", Dict(<<
        <<"title", Str("Energy Manager")>>,
        <<"department", Str("Capital Projects Management")>>,
        <<"office_phone", Str("925-957-2473")>>,
        <<"mobile", Str("925-812-7703")>>,
        <<"email", Str("Brendan.Havenar-Daughton@pw.cccounty.us")>>,
        <<"role_notes", Str("30 Muir Road project manager, reconciliation lead")>>
      >>)>>,
      <<"Mauricio Moreno", Dict(<<
        <<"title", Str("Project Manager/Consultant")>>,
        <<"department", Str("Capital Projects Management")>>,
        <<"email", Str("Mauricio.Moreno@pw.cccounty.us")>>,
        <<"role_notes", Str("30 Muir project, reconciliation disputed party")>>
      >>)>>,
      <<"George Stavros", Dict(<<
        <<"title", Str("Consultant")>>,
        <<"company", Str("Gordian")>>,
        <<"email", Str("G.Stavros@gordian.com")>>,
        <<"role_notes", Str("JOC program consultant, contractor evaluation specialist")>>
      >>)>>
    >>)
  ]

\* CountyOfficialsScraper.scrape_communication_records (county_communications_scraper.py:71-148)
scrape_communication_records ==
  Dict(<<
    <<"communication_thread_1", Dict(<<
      <<"subject", Str("JOC 012, 013, 014, 015 & 016 / JOC 017, 018, 019, 020")>>,
      <<"date_initiated", Str("2022-01-28")>>,
      <<"initiator", Str("Mike Vila, MVP Construction")>>,
      <<"recipient", Str("admin@pw.cccounty.us")>>,
      <<"cc", List(<<Str("warren.lai@pw.cccounty.us")>>)>>,
      <<"key_points", List(<<
        Str("MVP alleges unequal work distribution"),
        Str("Two contractors (Aztec, Mark Scott) heavily favored"),
        Str("MVP received only 2 RFPs in first JOC"),
        Str("MVP revenue: $250k, bonding costs: $30k"),
        Str("County's minimum obligation met, equity not addressed"),
        Str("Public Records Request filed")
      >>)>>,
      <<"status", Str("Acknowledged by County, no resolution")>>
    >>)>>,
    <<"communication_thread_2", Dict(<<
      <<"subject", StrOf(<<Ascii("Contract Timeline and RFP Opportunities "), Chr(8211), Ascii(" JOC 025")>>)>>,
      <<"date_initiated", Str("2025-01-27")>>,
      <<"initiator", Str("Mike Vila, MVP Construction")>>,
      <<"recipient", Str("Jeff Acuff")>>,
      <<"key_points", List(<<
        Str("JOC-025 contract dates confirmed: 2024-07-29 to 2025-10-26"),
        Str("MVP concerns about equitable work distribution continue"),
        Str("Aztec and Mark Scott again dominating contract awards"),
        Str("Aztec contract doubled: $2.5M to $5M"),
        Str("MVP never completed 50% of awarded contract value"),
        Str("Equity under California Public Contract Code questioned")
      >>)>>,
      <<"official_response", Str("County evaluates 'best fit' based on prior performance")>>,
      <<"resolution", Str("Pending - pattern continues 3 years later")>>
    >>)>>,
    <<"communication_thread_3", Dict(<<
      <<"subject", Str("Reconciliation Next Steps - 30 Muir Road Project")>>,
      <<"date_initiated", Str("2024-02-01")>>,
      <<"parties", List(<<
        Str("Mike Vila"),
        Str("Brendan Havenar-Daughton"),
        Str("Jeff Acuff"),
        Str("Mauricio Moreno")
      >>)>>,
      <<"duration", Str("2 months (Dec 2023 - Feb 2024)")>>,
      <<"key_issues", List(<<
        Str("Scope dispute on 30 Muir Road project"),
        Str("Delayed feedback and payment processing"),
        Str("County consultant (George) involvement disputed"),
        Str("Subcontractor relationships strained due to County PM behavior"),
        Str("Payment reconciliation stuck since December 2023"),
        Str("Mike Vila requests direct intervention from Jeff Acuff")
      >>)>>,
      <<"disputed_amount_estimated", Str("$40,000+")>>,
      <<"key_quote_county", Str("'Reconciliation is not intended to pay for corrective work'")>>,
      <<"resolution_status", Str("Unresolved as of communication date")>>
    >>)>>,
    <<"communication_thread_4", Dict(<<
      <<"subject", Str("Invoice Payment and California Prompt Payment Act Compliance")>>,
      <<"date_initiated", Str("2024-01-16")>>,
      <<"initiator", Str("Mike Vila")>>,
      <<"recipient", List(<<Str("Jeff Acuff"), Str("Susan Lindstrom")>>)>>,
      <<"disputed_invoices", List(<<
        Str("Invoice #023-007-004"),
        Str("Invoice #023-007-006"),
        Str("Invoice #023-007-007")
      >>)>>,
      <<"legal_basis", Str("California Civil Code Section 8800 et seq. (Prompt Payment Act)")>>,
      <<"key_points", List(<<
        Str("30-day payment requirement violated"),
        Str("Interest accrual at 2% per month on unpaid balance"),
        Str("County acknowledges Public Contract Code 20104.50 obligations"),
        Str("Payment eventually processed with interest accrual"),
        Str("Pattern of late payments documented")
      >>)>>,
      <<"county_action", Str("Submitted interest payment request to Auditor's Office (July 2024)")>>,
      <<"resolution", Str("Partial - interest calculated and processed")>>
    >>)>>
  >>)

\* CountyOfficialsScraper.extract_contract_identifiers (county_communications_scraper.py:150-196)
extract_contract_identifiers ==
  Dict(<<
    <<"joc_contracts", Dict(<<
      <<"joc_012_016", Dict(<<
        <<"status", Str("Historical")>>,
        <<"mvc_performance", Str("$250k revenue, negative ROI")>>
      >>)>>,
      <<"joc_017_020", Dict(<<
        <<"status", Str("Historical")>>,
        <<"mvc_performance", Str("$0 revenue")>>,
        <<"other_contractors", Dict(<<
          <<"Mark Scott Construction", Str("$1,879,526.93")>>,
          <<"Aztec Consultants", Str("$2,238,389.05")>>,
          <<"MIK Construction", Str("$318,702.15")>>
        >>)>>
      >>)>>,
      <<"joc_022", Dict(<<
        <<"status", Str("Historical")>>,
        <<"mvc_performance", Str("Unknown revenue")>>
      >>)>>,
      <<"joc_025", Dict(<<
        <<"status", Str("Current")>>,
        <<"start_date", Str("2024-07-29")>>,
        <<"end_date", Str("2025-10-26")>>,
        <<"mvc_status", Str("Awarded, low initial RFP activity")>>
      >>)>>
    >>)>>,
    <<"specific_projects", Dict(<<
      <<"30_muir_road", Dict(<<
        <<"location", Str("30 Muir Road, Martinez, CA")>>,
        <<"project_type", Str("County facility")>>,
        <<"contractor", Str("MVP Construction")>>,
        <<"dispute_period", Str("Dec 2023 - Feb 2024+")>>,
        <<"key_personnel", Str("Mike Vila (owner), Brendan Havenar-Daughton (PM)")>>,
        <<"status", Str("Reconciliation dispute ongoing")>>
      >>)>>
    >>)>>,
    <<"financial_identifiers", Dict(<<
      <<"taxpayer_id_aztec", Str("68-0262823")>>,
      <<"wbe_license_mvc", Str("1047890")>>,
      <<"mvc_business_license", Str("MVP Construction LLC")>>
    >>)>>
  >>)

\* CountyOfficialsScraper.scrape_public_records_data (county_communications_scraper.py:198-228)
scrape_public_records_data ==
  Dict(<<
    <<"job_order_tracking_reports", Dict(<<
      <<"report_date", Str("2022-12-09")>>,
      <<"source", Str("Contra Costa County Public Works")>>,
      <<"joc_017_mark_scott", Dict(<<
        <<"total_issued", Str("$1,879,526.93")>>,
        <<"sample_projects", List(<<
          Dict(<<
            <<"jo_id", Str("J17-02-250-22009-W")>>,
            <<"title", Str("Lab Building Parking Lot Modification")>>,
            <<"amount", Str("$313,519.21")>>
          >>),
          Dict(<<
            <<"jo_id", Str("J17-03-250-2013-WH")>>,
            <<"title", Str("10 Douglas Drive FLIP Generator")>>,
            <<"amount", Str("$615,197.56")>>
          >>),
          Dict(<<
            <<"jo_id", Str("J17-04-250-1803-WH")>>,
            <<"title", Str("CCRMC Pharmacy Compounding Room Upgrade")>>,
            <<"amount", Str("$113,422.53")>>
          >>)
        >>)>>
      >>)>>,
      <<"joc_018_aztec", Dict(<<
        <<"total_issued", Str("$2,238,389.05")>>,
        <<"sample_projects", List(<<
          Dict(<<
            <<"jo_id", Str("J18-01-345-2101-WH")>>,
            <<"title", Str("Pittsburg Health Center Cooling Tower Replacement")>>,
            <<"amount", Str("$988,469.46")>>
          >>),
          Dict(<<
            <<"jo_id", Str("J18-02-250-22010-W")>>,
            <<"title", Str("CCRMC Parking Lot Repair-Seal Coat")>>,
            <<"amount", Str("$444,459.45")>>
          >>),
          Dict(<<
            <<"jo_id", Str("J18-03-WON:6643271-WH")>>,
            <<"title", Str("WCDF Walk-In Refrigerator & Freezer Replacement")>>,
            <<"amount", Str("$763,687.94")>>
          >>)
        >>)>>
      >>)>>,
      <<"joc_020_mvp_construction", Dict(<<
        <<"total_issued", Str("$0.00")>>,
        <<"note", Str("Proposal Review stage, no completed work")>>
      >>)>>
    >>)>>
  >>)

\* generate_complete_report merging the extract outputs into the top-level
\* mapping instead of nesting them under extracted_data
generate_complete_report_flat(clock) ==
  Dict(<<
    <<"title", Str("Contra Costa County Communications & Contracts Data Extract")>>,
    <<"date_generated", isoformat(clock)>>,
    <<"officials", Ref("officials")>>,
    <<"communications", scrape_communication_records>>,
    <<"contracts", extract_contract_identifiers>>,
    <<"public_records", scrape_public_records_data>>
  >>)

\* a report that carries a copy of the officials (copy.deepcopy of the
\* field as the constructor set it) instead of the field's own object
generate_complete_report_copied(clock) ==
  Dict(<<
    <<"title", Str("Contra Costa County Communications & Contracts Data Extract")>>,
    <<"date_generated", isoformat(clock)>>,
    <<"data_sources", List(<<
      Str("Email communications (Jan 2022 - Jan 2025)"),
      Str("Job Order Tracking Reports"),
      Str("Public Records Requests"),
      Str("County official contact directories")
    >>)>>,
    <<"extracted_data", Dict(<<
      <<"officials", CountyOfficialsScraper_init.officials>>,
      <<"communications", scrape_communication_records>>,
      <<"contracts", extract_contract_identifiers>>,
      <<"public_records", scrape_public_records_data>>
    >>)>>,
    <<"analysis_notes", List(<<
      Str("Pattern of inequitable work distribution documented"),
      Str("Two contractors (Aztec, Mark Scott) receive ~90% of work"),
      Str("MVP concerns raised consistently over 3+ years"),
      Str("Payment disputes indicate cash flow impact on contractor"),
      Str("30 Muir Road reconciliation represents current dispute focus")
    >>)>>
  >>)

\* CountyOfficialsScraper.generate_complete_report (county_communications_scraper.py:230-257): the report composed at wall-clock time clock
generate_complete_report(clock) ==
  Dict(<<
    <<"title", Str("Contra Costa County Communications & Contracts Data Extract")>>,
    <<"date_generated", isoformat(clock)>>,
    <<"data_sources", List(<<
      Str("Email communications (Jan 2022 - Jan 2025)"),
      Str("Job Order Tracking Reports"),
      Str("Public Records Requests"),
      Str("County official contact directories")
    >>)>>,
    <<"extracted_data", Dict(<<
      <<"officials", Ref("officials")>>,
      <<"communications", scrape_communication_records>>,
      <<"contracts", extract_contract_identifiers>>,
      <<"public_records", scrape_public_records_data>>
    >>)>>,
    <<"analysis_notes", List(<<
      Str("Pattern of inequitable work distribution documented"),
      Str("Two contractors (Aztec, Mark Scott) receive ~90% of work"),
      Str("MVP concerns raised consistently over 3+ years"),
      Str("Payment disputes indicate cash flow impact on contractor"),
      Str("30 Muir Road reconciliation represents current dispute focus")
    >>)>>
  >>)

\* LegalDocumentsScraper.__init__ (legal_documents_scraper.py:18-26): the instance fields after construction
LegalDocumentsScraper_init ==
  [
    jurisdiction |-> Str("Contra Costa County, California"),
    contract_type |-> Str("Job Order Contract (JOC)"),
    legal_framework |-> List(<<
      Str("California Public Contract Code"),
      Str("California Civil Code (Prompt Payment Act)"),
      Str("Federal Labor Code"),
      Str("Government Code")
    >>)
  ]

\* LegalDocumentsScraper.extract_aztec_contract_terms (legal_documents_scraper.py:28-91)
extract_aztec_contract_terms ==
  Dict(<<
    <<"form", Str("CC-1 (Contra Costa County Standard Form)")>>,
    <<"form_approval", Str("Rev. 2-07")>>,
    <<"parties", Dict(<<
      <<"public_agency", Str("CONTRA COSTA COUNTY")>>,
      <<"contractor", Str("Aztec Consultants, Inc.")>>,
      <<"contractor_address", Str("2021 Omega Road, Ste 200, San Ramon, CA 94583")>>
    >>)>>,
    <<"contract_number", Str("000-1901")>>,
    <<"joc_designation", Str("JOB ORDER CONTRACT - 018")>>,
    <<"authorization_number", Str("WW1006")>>,
    <<"effective_date", Str("November 2, 2021")>>,
    <<"contract_type", Str("Construction Agreement - Job Order Contract")>>,
    <<"key_terms", Dict(<<
      <<"maximum_value", Str("$3,000,000.00")>>,
      <<"minimum_value", Str("$25,000.00")>>,
      <<"contract_duration", Str("1 year (365 days) or maximum contract value, whichever comes first")>>,
      <<"notice_to_proceed", Str("Required for each individual Job Order")>>,
      <<"federal_tax_id", Str("68-0262823")>>
    >>)>>,
    <<"county_contacts", Dict(<<
      <<"public_agency_agent", Str("Warren Lai, Deputy Public Works Director")>>,
      <<"capital_projects_manager", Str("Ramesh Kanzaria, Capital Projects Division Manager")>>
    >>)>>,
    <<"payment_terms", Dict(<<
      <<"frequency", Str("1st of each calendar month")>>,
      <<"payment_basis", Str("Work completed through 15th of preceding month")>>,
      <<"retention", Str("5% per Public Contract Code Section 9203")>>,
      <<"final_payment", Str("35 calendar days after completion notice")>>
    >>)>>,
    <<"insurance_requirements", Dict(<<
      <<"basis", Str("Labor Code Sections 1860-61")>>,
      <<"requirement", Str("Workers' Compensation insurance")>>,
      <<"labor_code_compliance", Str("Section 3700")>>
    >>)>>,
    <<"wage_requirements", Dict(<<
      <<"basis", Str("Labor Code Section 1773")>>,
      <<"requirement", Str("Prevailing wage rates per Department of Industrial Relations")>>,
      <<"daily_work", Str("8 hours constitutes legal day")>>,
      <<"overtime_compliance", Str("Labor Code Sections 1810-1815")>>
    >>)>>,
    <<"important_sections", Dict(<<
      <<"section_6_payment", Str("County pays for strict performance as determined by Public Agency")>>,
      <<"section_7_withholding", Str("County may withhold payment for defective work or claims")>>,
      <<"section_11_laws", Str("Labor Code Sections 1775, 1813 (prevailing wages), 1776 (payroll records)")>>,
      <<"section_20_venue", Str("Litigation venue: Contra Costa County (contractor waives removal)")>>,
      <<"section_22_record_retention", Str("5-year record retention requirement")>>
    >>)>>,
    <<"liquidated_damages", Dict(<<
      <<"applicability", Str("If contractor fails to complete within time fixed")>>,
      <<"schedule_example", Dict(<<
        <<"1_to_25k", Str("$235/day")>>,
        <<"25k_to_100k", Str("$325/day")>>,
        <<"100k_to_250k", Str("$410/day")>>,
        <<"250k_to_500k", Str("$525/day")>>,
        <<"500k_to_1m", Str("$750/day")>>
      >>)>>
    >>)>>
  >>)

\* LegalDocumentsScraper.extract_payment_law_compliance (legal_documents_scraper.py:93-135)
extract_payment_law_compliance ==
  Dict(<<
    <<"statute", Str("California Civil Code Section 8800 et seq. (Prompt Payment Act)")>>,
    <<"applicability", Str("Public entity construction contracts")>>,
    <<"key_sections", Dict(<<
      <<"8800", Str("General Prompt Payment requirements")>>,
      <<"8812", Dict(<<
        <<"title", Str("Payment by Public Entities")>>,
        <<"requirement", Str("Payment within 30 days of receiving demand")>>,
        <<"exceptions", Str("As otherwise agreed in writing")>>,
        <<"applicability", Str("Original contractor progress billings")>>
      >>)>>,
      <<"8814", Dict(<<
        <<"title", Str("Dispute Withholding")>>,
        <<"requirement", Str("Public entity may withhold no more than 150% of disputed amount")>>,
        <<"principle", Str("Undisputed work must be paid timely")>>
      >>)>>,
      <<"8818", Dict(<<
        <<"title", Str("Interest Penalty")>>,
        <<"interest_rate", Str("2% per month on unpaid balance")>>,
        <<"trigger", Str("Payment not made within Section 8812 timeframe")>>,
        <<"applicability", Str("All overdue undisputed amounts")>>
      >>)>>,
      <<"20104.50", Dict(<<
        <<"statute", Str("Public Contract Code Section 20104.50")>>,
        <<"title", Str("Payment Timelines for JOC Contracts")>>,
        <<"applicability", Str("Specific to Job Order Contracts")>>,
        <<"referenced_in", Str("County correspondence to MVP (June 2024)")>>
      >>)>>
    >>)>>,
    <<"mvc_application", Dict(<<
      <<"invoices_disputed", List(<<Str("023-007-004"), Str("023-007-006"), Str("023-007-007")>>)>>,
      <<"legal_basis_cited", Str("California Prompt Payment Act, Sections 8800-8818")>>,
      <<"county_acknowledgment", Str("County agreed to audit payment timelines (June 26, 2024)")>>,
      <<"county_action", Str("Submitted interest payment request to Auditor's Office (July 17, 2024)")>>,
      <<"result", Str("Interest calculated and processed per Section 8818")>>
    >>)>>
  >>)

\* LegalDocumentsScraper.extract_contract_code_requirements (legal_documents_scraper.py:137-157)
extract_contract_code_requirements ==
  Dict(<<
    <<"fair_distribution", Dict(<<
      <<"principle", Str("Public agencies must ensure equitable work distribution")>>,
      <<"sections", List(<<Str("4100-4114"), Str("20104.50")>>)>>,
      <<"transparency_requirement", Str("Work must be distributed fairly among qualified contractors")>>,
      <<"mvc_concern", Str("Same 2 contractors receiving 90%+ of work across multiple JOC cycles")>>
    >>)>>,
    <<"minimum_obligation", Dict(<<
      <<"interpretation_county", Str("County has minimum obligation only")>>,
      <<"mvc_argument", Str("Fairness and transparency require equitable distribution")>>,
      <<"legal_standard", Str("California Public Contract Code principles")>>
    >>)>>,
    <<"subcontractor_sections", Str("Sections 4100-4114 incorporated by reference")>>,
    <<"wage_compliance", Str("Department of Industrial Relations prevailing wage certification")>>,
    <<"venue_provision", Str("Work shall be performed in Contra Costa County")>>
  >>)

\* LegalDocumentsScraper.extract_disputed_projects (legal_documents_scraper.py:159-203)
extract_disputed_projects ==
  Dict(<<
    <<"30_muir_road_project", Dict(<<
      <<"location", Str("30 Muir Road, Martinez, CA 94553")>>,
      <<"owner", Str("Contra Costa County")>>,
      <<"contractor", Str("M V P Construction LLC")>>,
      <<"project_manager", Str("Brendan Havenar-Daughton (Energy Manager)")>>,
      <<"dispute_type", Str("Scope reconciliation")>>,
      <<"dispute_duration", Dict(<<
        <<"start", Str("December 2023")>>,
        <<"current", Str("February 2024+")>>,
        <<"duration_months", Str("2+ months")>>
      >>)>>,
      <<"dispute_parties", Dict(<<
        <<"mvc", Str("Mike Vila, Owner")>>,
        <<"county_pm", Str("Brendan Havenar-Daughton")>>,
        <<"county_management", List(<<Str("Mauricio Moreno"), Str("Jeff Acuff")>>)>>,
        <<"county_consultant", Str("George Stavros (Gordian)")>>
      >>)>>,
      <<"key_issues", List(<<
        Str("Scope of work interpretation"),
        Str("Measured quantities vs. contracted quantities"),
        Str("Additional work performed"),
        Str("Reconciliation calculation methodology")
      >>)>>,
      <<"disputed_amounts", Str("Estimated $40,000+ (from correspondence)")>>,
      <<"supporting_documentation", List(<<
        Str("Hard copies of work order receipts"),
        Str("Supplier invoices"),
        Str("Concrete truck documentation"),
        Str("Supplemental cost documentation")
      >>)>>,
      <<"mvc_position", Str("Reconciliation should be 'cut both ways' (credits and debits)")>>,
      <<"county_position", Str("Reconciliation only adjusts for scope variation, not corrective work")>>,
      <<"impact", Dict(<<
        <<"financial_strain", Str("MVP covering costs upfront")>>,
        <<"subcontractor_impact", Str("Contractors refusing additional County work")>>,
        <<"business_reputation", Str("Damage to MVP relationships and bidding position")>>
      >>)>>
    >>)>>
  >>)

\* LegalDocumentsScraper.extract_ens_legis_framework (legal_documents_scraper.py:205-232)
extract_ens_legis_framework ==
  Dict(<<
    <<"concept", Str("Ens Legis (creature of the law)")>>,
    <<"definition", Str("Artificial being created by law, contrasted with natural person")>>,
    <<"application", Str("Digital persona/AI clone as authorized representative")>>,
    <<"legal_basis", Dict(<<
      <<"persona_ficta", Str("Juridical/artificial person")>>,
      <<"characteristics", List(<<
        Str("Legal rights, protections, privileges & liabilities"),
        Str("Can sue, be sued, enter contracts, own property"),
        Str("Exists solely because law creates/recognizes it")
      >>)>>
    >>)>>,
    <<"digital_clone_designation", Str("Campaign Coordinator - Incrimination Nation")>>,
    <<"authorized_operations", List(<<
      Str("Legal Document Management & Assembly"),
      Str("Campaign Content Creation & Distribution"),
      Str("Platform Integration & Automation"),
      Str("Bot Development & Data Scraping Oversight")
    >>)>>,
    <<"framework_file", Str("Untitled dENS LEGIS FICTITIOUS PERSON - Digital Clone Framework")>>,
    <<"created_date", Str("January 10, 2026")>>
  >>)

\* a report that takes jurisdiction and legal_framework from the fields
\* the constructor set (self.jurisdiction, self.legal_framework)
generate_legal_analysis_report_from_fields(clock) ==
  Dict(<<
    <<"title", Str("Legal Documentation Analysis - MVP Construction vs. Contra Costa County")>>,
    <<"date_generated", isoformat(clock)>>,
    <<"jurisdiction", Ref("jurisdiction")>>,
    <<"case_focus", List(<<
      Str("JOC contract work distribution equity"),
      Str("Payment law compliance"),
      Str("30 Muir Road project reconciliation")
    >>)>>,
    <<"extracted_contracts", Dict(<<
      <<"aztec_joc_018", extract_aztec_contract_terms>>
    >>)>>,
    <<"legal_requirements", Dict(<<
      <<"payment_law", extract_payment_law_compliance>>,
      <<"contract_code", extract_contract_code_requirements>>
    >>)>>,
    <<"disputed_matters", extract_disputed_projects>>,
    <<"legal_framework", Ref("legal_framework")>>,
    <<"analysis_summary", Dict(<<
      <<"payment_law_violations", Str("County acknowledged late payments, interest processed per Code 8818")>>,
      <<"contract_equity_issues", Str("3-year pattern of inequitable work distribution documented")>>,
      <<"30_muir_dispute", Str("Ongoing scope reconciliation with $40k+ in dispute")>>,
      <<"legal_remedies_available", List(<<
        Str("Payment disputes resolved under Prompt Payment Act"),
        Str("Public Contract Code equity arguments supported by 3-year record"),
        Str("30 Muir reconciliation may require mediation or litigation")
      >>)>>
    >>)>>
  >>)

\* a report that leaves out one extract operation, the contract code
\* requirements
generate_legal_analysis_report_partial(clock) ==
  Dict(<<
    <<"title", Str("Legal Documentation Analysis - MVP Construction vs. Contra Costa County")>>,
    <<"date_generated", isoformat(clock)>>,
    <<"jurisdiction", Str("Contra Costa County, California")>>,
    <<"case_focus", List(<<>>)>>,
    <<"extracted_contracts", Dict(<<
      <<"aztec_joc_018", extract_aztec_contract_terms>>
    >>)>>,
    <<"legal_requirements", Dict(<<
      <<"payment_law", extract_payment_law_compliance>>
    >>)>>,
    <<"disputed_matters", extract_disputed_projects>>,
    <<"legal_framework", extract_ens_legis_framework>>,
    <<"analysis_summary", Dict(<<>>)>>
  >>)

\* LegalDocumentsScraper.generate_legal_analysis_report (legal_documents_scraper.py:234-267): the report composed at wall-clock time clock
generate_legal_analysis_report(clock) ==
  Dict(<<
    <<"title", Str("Legal Documentation Analysis - MVP Construction vs. Contra Costa County")>>,
    <<"date_generated", isoformat(clock)>>,
    <<"jurisdiction", Str("Contra Costa County, California")>>,
    <<"case_focus", List(<<
      Str("JOC contract work distribution equity"),
      Str("Payment law compliance"),
      Str("30 Muir Road project reconciliation")
    >>)>>,
    <<"extracted_contracts", Dict(<<
      <<"aztec_joc_018", extract_aztec_contract_terms>>
    >>)>>,
    <<"legal_requirements", Dict(<<
      <<"payment_law", extract_payment_law_compliance>>,
      <<"contract_code", extract_contract_code_requirements>>
    >>)>>,
    <<"disputed_matters", extract_disputed_projects>>,
    <<"legal_framework", extract_ens_legis_framework>>,
    <<"analysis_summary", Dict(<<
      <<"payment_law_violations", Str("County acknowledged late payments, interest processed per Code 8818")>>,
      <<"contract_equity_issues", Str("3-year pattern of inequitable work distribution documented")>>,
      <<"30_muir_dispute", Str("Ongoing scope reconciliation with $40k+ in dispute")>>,
      <<"legal_remedies_available", List(<<
        Str("Payment disputes resolved under Prompt Payment Act"),
        Str("Public Contract Code equity arguments supported by 3-year record"),
        Str("30 Muir reconciliation may require mediation or litigation")
      >>)>>
    >>)>>
  >>)

\* MVPContractorTracker.__init__ (mvc_joc_tracker.py:25-90): the instance fields after construction
MVPContractorTracker_init ==
  [
    company_name |-> Str("M V P Construction LLC"),
    wbe_license |-> Str("1047890"),
    contact_email |-> Str("mike@mvpcllc.com"),
    phone |-> Str("925.586.1478"),
    location |-> Str("Pacheco, CA 94553"),
    active_contracts |-> Dict(<<
      <<"JOC-025", Dict(<<
        <<"start_date", Str("2024-07-29")>>,
        <<"end_date", Str("2025-10-26")>>,
        <<"status", Str("active")>>,
        <<"awarded_value", Str("Unknown (pending bid awards)")>>
      >>)>>
    >>),
    historical_contracts |-> Dict(<<
      <<"JOC-012", Dict(<<
        <<"completed", PyBool(TRUE)>>,
        <<"revenue", PyInt(250000)>>,
        <<"bonding_cost", PyInt(30000)>>
      >>)>>,
      <<"JOC-017", Dict(<<
        <<"completed", PyBool(TRUE)>>,
        <<"revenue", PyInt(0)>>,
        <<"bonding_cost", PyInt(15000)>>
      >>)>>,
      <<"JOC-018", Dict(<<
        <<"completed", PyBool(TRUE)>>,
        <<"revenue", PyInt(0)>>,
        <<"bonding_cost", PyInt(15000)>>
      >>)>>,
      <<"JOC-019", Dict(<<
        <<"completed", PyBool(TRUE)>>,
        <<"revenue", PyInt(0)>>,
        <<"bonding_cost", PyInt(15000)>>
      >>)>>,
      <<"JOC-020", Dict(<<
        <<"completed", PyBool(TRUE)>>,
        <<"revenue", PyInt(0)>>,
        <<"bonding_cost", PyInt(15000)>>
      >>)>>,
      <<"JOC-022", Dict(<<
        <<"completed", PyBool(TRUE)>>,
        <<"revenue", Str("Unknown")>>,
        <<"bonding_cost", PyInt(30000)>>
      >>)>>,
      <<"JOC-025", Dict(<<
        <<"status", Str("active")>>,
        <<"bonding_cost", PyInt(30000)>>
      >>)>>
    >>),
    competitors |-> Dict(<<
      <<"Aztec Consultants Inc.", Dict(<<
        <<"contracts", List(<<Str("JOC-018")>>)>>,
        <<"addresses", List(<<Str("2021 Omega Road, Ste 200, San Ramon, CA 94583")>>)>>,
        <<"fed_tax_id", Str("68-0262823")>>,
        <<"contact", Str("Corporate")>>,
        <<"performance", Str("Heavily favored, contract doubled from $2.5M to $5M")>>,
        <<"notes", Str("Consistently receiving majority of work orders")>>
      >>)>>,
      <<"Mark Scott Construction Inc.", Dict(<<
        <<"contracts", List(<<Str("JOC-017")>>)>>,
        <<"performance", Str("Heavily favored, contract doubled from $2.5M to $5M")>>,
        <<"notes", Str("Receives consistent RFPs and job orders")>>
      >>)>>,
      <<"M.V.P. Construction", Dict(<<
        <<"contracts", List(<<Str("JOC-020")>>)>>,
        <<"note", Str("Different entity, distinct from MVP")>>
      >>)>>
    >>),
    county_contacts |-> Dict(<<
      <<"Jeff Acuff", Dict(<<
        <<"title", Str("Division Manager - Capital Projects Management")>>,
        <<"office", Str("925-655-3130")>>,
        <<"mobile", Str("925-595-6001")>>,
        <<"email", Str("Jeff.Acuff@pw.cccounty.us")>>
      >>)>>,
      <<"Ramesh Kanzaria", Dict(<<
        <<"title", Str("Capital Projects Division Manager")>>,
        <<"entity", Str("Contra Costa County")>>
      >>)>>,
      <<"Warren Lai", Dict(<<
        <<"title", Str("Deputy Public Works Director")>>,
        <<"entity", Str("Contra Costa County")>>
      >>)>>
    >>)
  ]

\* MVPContractorTracker.scrape_joc_tracking_data (mvc_joc_tracker.py:92-125)
scrape_joc_tracking_data ==
  Dict(<<
    <<"joc_017_018_019_020", Dict(<<
      <<"report_date", Str("2022-12-09")>>,
      <<"contractors", List(<<
        Str("Mark Scott Construction Inc."),
        Str("Aztec Consultants Inc."),
        Str("MIK Construction"),
        Str("M.V.P. Construction")
      >>)>>,
      <<"total_issued", Dict(<<
        <<"JOC-017", Str("$1,879,526.93")>>,
        <<"JOC-018", Str("$2,238,389.05")>>,
        <<"JOC-019", Str("$318,702.15")>>,
        <<"JOC-020", Str("$0.00")>>
      >>)>>,
      <<"project_samples", List(<<
        Dict(<<
          <<"job_order", Str("J17-02-250-22009-W")>>,
          <<"title", Str("Lab Building Parking Lot Modification")>>,
          <<"contractor", Str("Mark Scott Construction")>>,
          <<"amount", Str("$313,519.21")>>,
          <<"status", Str("Construction Start")>>
        >>),
        Dict(<<
          <<"job_order", Str("J18-01-345-2101-WH")>>,
          <<"title", Str("Pittsburg Health Center Cooling Tower Replacement")>>,
          <<"contractor", Str("Aztec Consultants")>>,
          <<"amount", Str("$988,469.46")>>,
          <<"status", Str("Construction Start")>>
        >>)
      >>)>>
    >>)>>
  >>)

\* analyze_contract_disparity reporting the revenue as the number held in
\* historical_contracts instead of the formatted string
analyze_contract_disparity_numeric ==
  Dict(<<
    <<"findings", Dict(<<
      <<"mvc_historical_revenue", PyInt(250000)>>,
      <<"mvc_total_bonding_costs", Str("$150,000 (JOCs 12-20)")>>,
      <<"mvc_net_loss", Str("-$0 to -$150k estimated")>>,
      <<"mvc_rfps_received_joc_12_16", PyInt(2)>>,
      <<"mvc_time_to_first_project", Str("~12 months after contract award")>>,
      <<"mvc_status", Str("Consistently underbid and underutilized")>>
    >>)>>,
    <<"competitor_performance", Dict(<<
      <<"aztec_2022_awarded", Str("$2,238,389.05")>>,
      <<"mark_scott_2022_awarded", Str("$1,879,526.93")>>,
      <<"mvc_2022_awarded", Str("$0.00")>>
    >>)>>,
    <<"equity_concerns", Dict(<<
      <<"contract_extensions", Str("Aztec received contract extension, doubled from $2.5M to $5M")>>,
      <<"rfp_distribution", Str("Unequal - same 2 contractors dominate all work")>>,
      <<"minimum_fulfillment", Str("County obligation only includes minimum, not equitable distribution")>>,
      <<"mvc_concern", Str("Never completed full 50% of awarded contract value")>>
    >>)>>
  >>)

\* MVPContractorTracker.analyze_contract_disparity (mvc_joc_tracker.py:127-153)
analyze_contract_disparity ==
  Dict(<<
    <<"findings", Dict(<<
      <<"mvc_historical_revenue", Str("$250,000")>>,
      <<"mvc_total_bonding_costs", Str("$150,000 (JOCs 12-20)")>>,
      <<"mvc_net_loss", Str("-$0 to -$150k estimated")>>,
      <<"mvc_rfps_received_joc_12_16", PyInt(2)>>,
      <<"mvc_time_to_first_project", Str("~12 months after contract award")>>,
      <<"mvc_status", Str("Consistently underbid and underutilized")>>
    >>)>>,
    <<"competitor_performance", Dict(<<
      <<"aztec_2022_awarded", Str("$2,238,389.05")>>,
      <<"mark_scott_2022_awarded", Str("$1,879,526.93")>>,
      <<"mvc_2022_awarded", Str("$0.00")>>
    >>)>>,
    <<"equity_concerns", Dict(<<
      <<"contract_extensions", Str("Aztec received contract extension, doubled from $2.5M to $5M")>>,
      <<"rfp_distribution", Str("Unequal - same 2 contractors dominate all work")>>,
      <<"minimum_fulfillment", Str("County obligation only includes minimum, not equitable distribution")>>,
      <<"mvc_concern", Str("Never completed full 50% of awarded contract value")>>
    >>)>>
  >>)

\* MVPContractorTracker.scrape_email_communications (mvc_joc_tracker.py:155-189)
scrape_email_communications ==
  Dict(<<
    <<"critical_dates", Dict(<<
      <<"2022-01-28", Str("Mike Vila requests public records on JOC distribution")>>,
      <<"2022-02-04", Str("County acknowledges delay in work opportunities")>>,
      <<"2024-01-16", Str("Invoice 023-007-004 payment inquiry - California Prompt Payment Act cited")>>,
      <<"2024-02-06", Str("30 Muir Road reconciliation dispute - $60k+ in dispute")>>,
      <<"2024-06-26", Str("County acknowledges Public Contract Code 20104.50 obligations")>>,
      <<"2025-01-27", Str("JOC-025 contract equity concerns raised")>>,
      <<"2025-01-28", Str("County confirms JOC-025 dates: 2024-07-29 to 2025-10-26")>>
    >>)>>,
    <<"payment_issues", Dict(<<
      <<"invoice_023_007_006", Str("Undisputed payment delay")>>,
      <<"invoice_023_007_007", Str("Undisputed payment delay")>>,
      <<"applicable_law", Str("California Prompt Payment Act, Sections 8800-8818")>>,
      <<"interest_rate", Str("2% per month on unpaid balance")>>,
      <<"county_acknowledgment", Str("County agreed to audit invoice receipt dates")>>
    >>)>>,
    <<"reconciliation_issues", Dict(<<
      <<"30_muir_project", Str("Significant scope dispute")>>,
      <<"duration", Str("December 2023 - February 2024 (ongoing)")>>,
      <<"parties", Dict(<<
        <<"mvc", Str("Mike Vila, Owner")>>,
        <<"county_pm", Str("Brendan Havenar-Daughton, Energy Manager")>>,
        <<"county_management", Str("Mauricio Moreno, Jeff Acuff")>>,
        <<"county_consultant", Str("George Stavros, Gordian")>>
      >>)>>,
      <<"disputed_amount", Str("$40,000+ (estimated based on correspondence)")>>
    >>)>>
  >>)

\* generate_equity_report with an extract operation that stamps its result
\* with the time of the call
generate_equity_report_stamped(clock) ==
  Dict(<<
    <<"title", Str("JOC Work Distribution Equity Analysis - MVP Construction")>>,
    <<"date_generated", isoformat(clock)>>,
    <<"jurisdiction", Str("Contra Costa County, California")>>,
    <<"analysis", DictOf(Append(analyze_contract_disparity.items,
                                 <<Key("analyzed_at"), isoformat(clock)>>))>>,
    <<"communications", scrape_email_communications>>,
    <<"metrics", scrape_joc_tracking_data>>,
    <<"recommendations", List(<<
      Str("Request formal audit of JOC work distribution methodology"),
      Str("Document all RFP distribution patterns for legal review"),
      Str("File Public Contract Code Section 20104.50 payment compliance request"),
      Str("Consider legal action for disparate contract treatment"),
      Str("Archive all correspondence for potential litigation")
    >>)>>
  >>)

\* MVPContractorTracker.generate_equity_report (mvc_joc_tracker.py:191-211): the report composed at wall-clock time clock
generate_equity_report(clock) ==
  Dict(<<
    <<"title", Str("JOC Work Distribution Equity Analysis - MVP Construction")>>,
    <<"date_generated", isoformat(clock)>>,
    <<"jurisdiction", Str("Contra Costa County, California")>>,
    <<"analysis", analyze_contract_disparity>>,
    <<"communications", scrape_email_communications>>,
    <<"metrics", scrape_joc_tracking_data>>,
    <<"recommendations", List(<<
      Str("Request formal audit of JOC work distribution methodology"),
      Str("Document all RFP distribution patterns for legal review"),
      Str("File Public Contract Code Section 20104.50 payment compliance request"),
      Str("Consider legal action for disparate contract treatment"),
      Str("Archive all correspondence for potential litigation")
    >>)>>
  >>)

(***************************************************************************)
(* The programs and their environment.                                     *)
(***************************************************************************)
\* the largest wall-clock reading, in half seconds
MaxClock == 1

\* the number of runs of the script, one after the other
MaxRuns == 2

\* the number of lengths at which a failing write may stop
Cuts == 2

\* the number of reports a caller of the class generates
MaxReports == 4

\* the number of method calls a caller's record keeps
MaxCalls == 2

\* the number of assignments a caller makes to the reports it was given
MaxWrites == 2

Scripts == {"county_communications_scraper", "legal_documents_scraper", "mvc_joc_tracker"}

Procs == 1..MaxRuns

\* the default of save_report's filename parameter
DefaultFilename(s) ==
  CASE s = "county_communications_scraper" -> "county_communications_extract.json"
    [] s = "legal_documents_scraper" -> "legal_analysis_extract.json"
    [] s = "mvc_joc_tracker" -> "joc_equity_analysis.json"

\* a file name a caller passes to save_report
CallerFilename == "report_copy.json"

FileNames == {DefaultFilename(s) : s \in Scripts} \cup {CallerFilename}

\* a save_report that ignores its filename parameter and writes the
\* default file
save_report_filename_fixed(s, arg) == DefaultFilename(s)

\* the filename parameter of save_report: the argument, or the default
\* when the caller passes none (written "" here)
save_report_filename(s, arg) == IF arg = "" THEN DefaultFilename(s) ELSE arg

\* the modules a script imports that are not part of the standard library
ThirdPartyImports(s) == IF s = "mvc_joc_tracker" THEN {"requests"} ELSE {}

\* __main__ printing the report before it saves it
main_print_first(s) ==
  IF s = "mvc_joc_tracker"
  THEN <<"import", "construct", "generate", "print", "save_report", "log_complete">>
  ELSE <<"import", "construct", "generate", "print", "save_report">>

\* the statements of the script's __main__ block, after the module's imports
main(s) ==
  IF s = "mvc_joc_tracker"
  THEN <<"import", "construct", "generate", "save_report", "print", "log_complete">>
  ELSE <<"import", "construct", "generate", "save_report", "print">>

\* the constructor of the script's class
construct(s) ==
  CASE s = "county_communications_scraper" -> CountyOfficialsScraper_init
    [] s = "legal_documents_scraper" -> LegalDocumentsScraper_init
    [] s = "mvc_joc_tracker" -> MVPContractorTracker_init

\* what the extract operations of the script's class return
Extracts(s) ==
  CASE s = "county_communications_scraper" ->
         <<scrape_communication_records, extract_contract_identifiers,
           scrape_public_records_data>>
    [] s = "legal_documents_scraper" ->
         <<extract_aztec_contract_terms, extract_payment_law_compliance,
           extract_contract_code_requirements, extract_disputed_projects,
           extract_ens_legis_framework>>
    [] s = "mvc_joc_tracker" ->
         <<scrape_joc_tracking_data, analyze_contract_disparity, scrape_email_communications>>

\* the names of the extract operations, in the order of Extracts
ExtractNames(s) ==
  CASE s = "county_communications_scraper" ->
         <<"scrape_communication_records", "extract_contract_identifiers",
           "scrape_public_records_data">>
    [] s = "legal_documents_scraper" ->
         <<"extract_aztec_contract_terms", "extract_payment_law_compliance",
           "extract_contract_code_requirements", "extract_disputed_projects",
           "extract_ens_legis_framework">>
    [] s = "mvc_joc_tracker" ->
         <<"scrape_joc_tracking_data", "analyze_contract_disparity",
           "scrape_email_communications">>

\* an extract operation that consumes the data it reads (pop, clear)
call_extract_consuming(s, k, self) ==
  [ret |-> Extracts(s)[k], self |-> [f \in DOMAIN self |-> List(<<>>)]]

\* extract operation k called on an instance whose fields are self: the
\* value it returns and the fields of the instance after the call
call_extract(s, k, self) == [ret |-> Extracts(s)[k], self |-> self]

\* the report-generation operation of the script's class
generate_report(s, clock) ==
  CASE s = "county_communications_scraper" -> generate_complete_report(clock)
    [] s = "legal_documents_scraper" -> generate_legal_analysis_report(clock)
    [] s = "mvc_joc_tracker" -> generate_equity_report(clock)

NoFile == [exists |-> FALSE, data |-> ""]

File(data) == [exists |-> TRUE, data |-> data]

NoHandle == [open |-> FALSE, name |-> "", pos |-> 0, report |-> 0, flushed |-> 0]

\* open(filename, 'r+'): the content is kept, the position is 0
open_keep(file) == [file |-> File(file.data), pos |-> 0]

\* open(filename, 'a'): the content is kept, the position is its end
open_append(file) == [file |-> File(file.data), pos |-> Len(file.data)]

\* open(filename, 'w'): the file is created or truncated, the position is 0
open_w(file) == [file |-> File(""), pos |-> 0]

\* n bytes of a hole in a file, which read as NUL; a TLA+ string cannot
\* hold NUL, so the byte is written as form feed, which no document holds
RECURSIVE Hole(_)
Hole(n) ==
  IF n <= 0 THEN ""
  ELSE IF n = 1 THEN "\f"
  ELSE Hole(n \div 2) \o Hole(n - (n \div 2))

\* f.write reaching the disk: bytes written at position pos; a position
\* past the end of the file (another process truncated it) leaves a hole
WriteAt(data, pos, bytes) ==
  LET base == IF pos > Len(data) THEN data \o Hole(pos - Len(data)) ELSE data
  IN  SubSeq(base, 1, pos) \o bytes
        \o (IF pos + Len(bytes) < Len(base) THEN SubSeq(base, pos + Len(bytes) + 1, Len(base)) ELSE "")

\* The bytes of a document that reach the disk while json.dump runs: the
\* file object buffers io.DEFAULT_BUFFER_SIZE = 8192 bytes, so a longer
\* document is written in part before close() flushes the rest.  (The real
\* boundary is the last end of an encoder chunk at or before 8192.)
FlushedByDump(doc) == IF Len(doc) > 8192 THEN 8192 ELSE 0

\* the lengths lo <= n < hi at which a failing write may leave the file
PartialLengths(lo, hi) == {lo + k * ((hi - lo) \div Cuts) : k \in 0..(Cuts - 1)}

\* what was in the output file before the first run: nothing, a short
\* file, or a document longer than any the script writes
EarlierFiles(s) ==
  {NoFile, File("{}"), File(dumps(generate_report(s, 1), construct(s)) \o "\n\n# appended by hand\n")}

\* the text print(json.dumps(report, indent=2)) writes to standard output
print_json(report, heap) == dumps(report, heap) \o "\n"

\* __main__ printing a report it generates anew instead of the saved one
printed_report_regenerated(made, s, clock) == generate_report(s, clock)

\* the report that __main__ prints: its local variable report
printed_report(made, s, clock) == made[1]

VARIABLES
  script,      \* the script this behaviour runs
  installed,   \* the third-party modules the interpreter can import
  now,         \* the wall clock
  fs,          \* the working directory: file name -> file
  pc,          \* per run: the statement about to be executed
  inst,        \* per run: the fields of the instance (the heap a Ref reads)
  reports,     \* per run: the reports generated, in order
  handle,      \* per run: the file object save_report holds
  stdout,      \* per run: what was printed
  log,         \* per run: the records the logger emitted
  failed_at,   \* per run: the step that raised, "none" if none did
  trace,       \* per run: the statements completed, in order
  exit_file,   \* per run: the output file as the run left it on exit
  calls        \* per caller: the latest method calls that returned

vars == <<script, installed, now, fs, pc, inst, reports, handle, stdout, log,
          failed_at, trace, exit_file, calls>>

NoInstance == [constructed |-> FALSE]

Constructed(p) == inst[p] # NoInstance

InitEnv ==
  /\ script \in Scripts
  /\ installed \in SUBSET ThirdPartyImports(script)
  /\ now \in 0..MaxClock
  /\ inst = [p \in Procs |-> NoInstance]
  /\ reports = [p \in Procs |-> <<>>]
  /\ handle = [p \in Procs |-> NoHandle]
  /\ stdout = [p \in Procs |-> ""]
  /\ log = [p \in Procs |-> <<>>]
  /\ failed_at = [p \in Procs |-> "none"]
  /\ trace = [p \in Procs |-> <<>>]
  /\ exit_file = [p \in Procs |-> NoFile]
  /\ calls = [p \in Procs |-> <<>>]

Init ==
  /\ InitEnv
  /\ \E before \in EarlierFiles(script) :
       fs = [f \in FileNames |-> IF f = DefaultFilename(script) THEN before ELSE NoFile]
  /\ pc = [p \in Procs |-> "import"]

\* the statement after stmt in __main__
After(stmt) ==
  LET prog == main(script)
      i == CHOOSE j \in 1..Len(prog) : prog[j] = stmt
  IN  IF i = Len(prog) THEN "done" ELSE prog[i + 1]

\* statement stmt of run p has completed
Completed(p, stmt) ==
  /\ pc' = [pc EXCEPT ![p] = After(stmt)]
  /\ trace' = [trace EXCEPT ![p] = Append(@, stmt)]
  /\ exit_file' = IF After(stmt) = "done"
                  THEN [exit_file EXCEPT ![p] = fs'[DefaultFilename(script)]]
                  ELSE exit_file

\* an exception nothing catches: the process ends
Raised(p, step) ==
  /\ pc' = [pc EXCEPT ![p] = "failed"]
  /\ failed_at' = [failed_at EXCEPT ![p] = step]
  /\ UNCHANGED <<trace, exit_file>>

\* runs follow one another: a run starts when the one before it has ended
MayStart(p) == IF p = 1 THEN TRUE ELSE pc[p - 1] \in {"done", "failed"}

\* the import statements at the top of the module
Import(p) ==
  /\ pc[p] = "import" /\ MayStart(p)
  /\ ThirdPartyImports(script) \subseteq installed
  /\ Completed(p, "import")
  /\ UNCHANGED <<calls, script, installed, now, fs, inst, reports, handle, stdout, log, failed_at>>

\* import of a module that is not installed: ModuleNotFoundError
ImportFails(p) ==
  /\ pc[p] = "import" /\ MayStart(p)
  /\ ~(ThirdPartyImports(script) \subseteq installed)
  /\ Raised(p, "import")
  /\ UNCHANGED <<calls, script, installed, now, fs, inst, reports, handle, stdout, log>>

\* scraper = CountyOfficialsScraper() and the like
Construct(p) ==
  /\ pc[p] = "construct"
  /\ inst' = [inst EXCEPT ![p] = construct(script)]
  /\ Completed(p, "construct")
  /\ UNCHANGED <<calls, script, installed, now, fs, reports, handle, stdout, log, failed_at>>

\* report = scraper.generate_complete_report() and the like
Generate(p) ==
  /\ pc[p] = "generate"
  /\ reports' = [reports EXCEPT ![p] = Append(@, generate_report(script, now))]
  /\ Completed(p, "generate")
  /\ UNCHANGED <<calls, script, installed, now, fs, inst, handle, stdout, log, failed_at>>

\* save_report(report): with open(filename, 'w') as f
SaveOpen(p) ==
  /\ pc[p] = "save_report"
  /\ LET name == DefaultFilename(script)
         o == open_w(fs[name])
     IN  /\ fs' = [fs EXCEPT ![name] = o.file]
         /\ handle' = [handle EXCEPT ![p] =
              [open |-> TRUE, name |-> name, pos |-> o.pos, report |-> 1, flushed |-> 0]]
  /\ pc' = [pc EXCEPT ![p] = "save_report.dump"]
  /\ UNCHANGED <<calls, script, installed, now, inst, reports, stdout, log, failed_at, trace, exit_file>>

\* open() raises OSError (permission denied, read-only file system): the
\* file is left as it was
SaveOpenFails(p) ==
  /\ pc[p] = "save_report"
  /\ Raised(p, "open")
  /\ UNCHANGED <<calls, script, installed, now, fs, inst, reports, handle, stdout, log>>

\* a save_report that stamps the report again when it writes it
Document_restamped(p) == dumps(generate_report(script, now), inst[p])

\* the document save_report is writing
Document(p) == dumps(reports[p][handle[p].report], inst[p])

\* json.dump(report, f, indent=2): what exceeds the buffer reaches the disk
SaveDump(p) ==
  /\ pc[p] = "save_report.dump"
  /\ LET h == handle[p]
         doc == Document(p)
         n == FlushedByDump(doc)
     IN  /\ fs' = [fs EXCEPT ![h.name] = File(WriteAt(@.data, h.pos, SubSeq(doc, 1, n)))]
         /\ handle' = [handle EXCEPT ![p] = [h EXCEPT !.flushed = n]]
  /\ pc' = [pc EXCEPT ![p] = "save_report.close"]
  /\ UNCHANGED <<calls, script, installed, now, inst, reports, stdout, log, failed_at, trace, exit_file>>

\* a write inside json.dump raises OSError (disk full): the with block
\* closes the file, which holds the bytes written so far
SaveDumpFails(p) ==
  /\ pc[p] = "save_report.dump"
  /\ LET h == handle[p]
         doc == Document(p)
     IN  /\ FlushedByDump(doc) > 0
         /\ \E n \in PartialLengths(0, FlushedByDump(doc)) :
              fs' = [fs EXCEPT ![h.name] = File(WriteAt(@.data, h.pos, SubSeq(doc, 1, n)))]
  /\ handle' = [handle EXCEPT ![p] = NoHandle]
  /\ Raised(p, "dump")
  /\ UNCHANGED <<calls, script, installed, now, inst, reports, stdout, log>>

\* the record logger.info emits when save_report has written the file
SavedRecord(s, name) ==
  IF s = "mvc_joc_tracker" THEN <<"INFO:__main__:Report saved: " \o name>> ELSE <<>>

\* leaving the with block: close() flushes the rest of the document;
\* save_report then logs (equity tracker) and returns the file name
SaveClose(p) ==
  /\ pc[p] = "save_report.close"
  /\ LET h == handle[p]
         doc == Document(p)
     IN  /\ fs' = [fs EXCEPT ![h.name] =
              File(WriteAt(@.data, h.pos + h.flushed, SubSeq(doc, h.flushed + 1, Len(doc))))]
         /\ log' = [log EXCEPT ![p] = @ \o SavedRecord(script, h.name)]
  /\ handle' = [handle EXCEPT ![p] = NoHandle]
  /\ Completed(p, "save_report")
  /\ UNCHANGED <<calls, script, installed, now, inst, reports, stdout, failed_at>>

\* the flush inside close() raises OSError: part of the rest was written
SaveCloseFails(p) ==
  /\ pc[p] = "save_report.close"
  /\ LET h == handle[p]
         doc == Document(p)
     IN  \E n \in PartialLengths(h.flushed, Len(doc)) :
           fs' = [fs EXCEPT ![h.name] =
             File(WriteAt(@.data, h.pos + h.flushed, SubSeq(doc, h.flushed + 1, n)))]
  /\ handle' = [handle EXCEPT ![p] = NoHandle]
  /\ Raised(p, "close")
  /\ UNCHANGED <<calls, script, installed, now, inst, reports, stdout, log>>

\* print(json.dumps(report, indent=2))
PrintReport(p) ==
  /\ pc[p] = "print"
  /\ stdout' = [stdout EXCEPT ![p] = @ \o print_json(printed_report(reports[p], script, now), inst[p])]
  /\ UNCHANGED fs
  /\ Completed(p, "print")
  /\ UNCHANGED <<calls, script, installed, now, inst, reports, handle, log, failed_at>>

\* logger.info("MVP JOC Tracking Analysis Complete")
LogComplete(p) ==
  /\ pc[p] = "log_complete"
  /\ log' = [log EXCEPT ![p] = Append(@, "INFO:__main__:MVP JOC Tracking Analysis Complete")]
  /\ UNCHANGED fs
  /\ Completed(p, "log_complete")
  /\ UNCHANGED <<calls, script, installed, now, inst, reports, handle, stdout, failed_at>>

\* datetime.now() reads the local wall clock, which moves on its own and
\* may be set back
ClockStep ==
  /\ \E t \in 0..MaxClock : t # now /\ now' = t
  /\ UNCHANGED <<calls, script, installed, fs, pc, inst, reports, handle, stdout, log,
                 failed_at, trace, exit_file>>

Next ==
  \/ \E p \in Procs :
       \/ Import(p)
       \/ ImportFails(p)
       \/ Construct(p)
       \/ Generate(p)
       \/ SaveOpen(p)
       \/ SaveOpenFails(p)
       \/ SaveDump(p)
       \/ SaveDumpFails(p)
       \/ SaveClose(p)
       \/ SaveCloseFails(p)
       \/ PrintReport(p)
       \/ LogComplete(p)
  \/ ClockStep

\* the scripts run as programs, MaxRuns times one after the other
Spec == Init /\ [][Next]_vars

(***************************************************************************)
(* A caller that has imported the module and constructed an instance, and  *)
(* calls the report-generation operation on it.                            *)
(***************************************************************************)
InitCalls ==
  /\ InitEnv
  /\ installed = ThirdPartyImports(script)
  /\ fs = [f \in FileNames |-> NoFile]
  /\ pc = [p \in Procs |-> IF p = 1 THEN "caller" ELSE "unused"]

CallConstruct(p) ==
  /\ pc[p] = "caller"
  /\ (~Constructed(p) \/ reports[p] # <<>>)
  /\ inst' = [inst EXCEPT ![p] = construct(script)]
  /\ reports' = [reports EXCEPT ![p] = <<>>]
  /\ calls' = [calls EXCEPT ![p] = <<>>]
  /\ UNCHANGED <<script, installed, now, fs, pc, handle, stdout, log, failed_at, trace, exit_file>>

CallGenerate(p) ==
  /\ pc[p] = "caller"
  /\ Constructed(p)
  /\ Len(reports[p]) < MaxReports
  /\ reports' = [reports EXCEPT ![p] = Append(@, generate_report(script, now))]
  /\ UNCHANGED <<calls, script, installed, now, fs, pc, inst, handle, stdout, log, failed_at, trace, exit_file>>

NextCalls ==
  \/ \E p \in Procs :
       \/ CallConstruct(p)
       \/ CallGenerate(p)
  \/ ClockStep

SpecCalls == InitCalls /\ [][NextCalls]_vars

(***************************************************************************)
(* A caller that uses the whole class: the extract operations and          *)
(* save_report, with a report and a file name of its choice.  calls keeps  *)
(* the latest MaxCalls calls: the operation, its arguments, and what it    *)
(* returned or raised.                                                     *)
(***************************************************************************)
\* the first reference on the way from v along path, if there is one: the
\* field it names and the rest of the path
RECURSIVE Aliased(_, _)
Aliased(v, path) ==
  IF path = <<>> THEN [found |-> FALSE]
  ELSE LET child == Get(v, path[1])
       IN  IF child.t = "ref" THEN [found |-> TRUE, to |-> child.to, path |-> Tail(path)]
           ELSE Aliased(child, Tail(path))

\* v after v[path[1]]...[path[n]][key] = value, no reference on the way
RECURSIVE Assign(_, _, _, _)
Assign(v, path, key, value) ==
  IF path = <<>> THEN DictOf(SetItem(v.items, Key(key), value))
  ELSE DictOf(SetItem(v.items, Key(path[1]), Assign(Get(v, path[1]), Tail(path), key, value)))

\* the caller executes report[path[1]]...[path[n]][key] = value on the
\* i-th report it was given: the dict it changes is part of that report, or
\* the object a field of the instance holds
CallerSets(p, i, path, key, value) ==
  /\ pc[p] = "caller"
  /\ i \in 1..Len(reports[p])
  /\ LET a == Aliased(reports[p][i], path)
     IN  IF a.found
         THEN /\ inst' = [inst EXCEPT ![p][a.to] = Assign(@, a.path, key, value)]
              /\ UNCHANGED reports
         ELSE /\ reports' = [reports EXCEPT ![p][i] = Assign(@, path, key, value)]
              /\ UNCHANGED inst
  /\ UNCHANGED <<calls, script, installed, now, fs, pc, handle, stdout, log, failed_at, trace,
                 exit_file>>

\* the mappings a report is made of, each by the keys that lead to it
Sections(s) ==
  CASE s = "county_communications_scraper" ->
         {<<"extracted_data", "officials">>, <<"extracted_data", "communications">>,
          <<"extracted_data", "contracts">>, <<"extracted_data", "public_records">>}
    [] s = "legal_documents_scraper" ->
         {<<"extracted_contracts">>, <<"legal_requirements">>, <<"disputed_matters">>,
          <<"legal_framework">>, <<"analysis_summary">>}
    [] s = "mvc_joc_tracker" -> {<<"analysis">>, <<"communications">>, <<"metrics">>}

\* v[path[1]]...[path[n]], following a reference to the object it names
RECURSIVE At(_, _, _)
At(v, path, heap) ==
  IF v.t = "ref" THEN At(heap[v.to], path, heap)
  ELSE IF path = <<>> THEN v
  ELSE At(Get(v, path[1]), Tail(path), heap)

\* the objects in which the caller has set the key "touched": sections of
\* its reports (report number, path) and objects the instance holds (0,
\* path)
Writes(p) ==
  LET marked == {w \in (1..Len(reports[p])) \X Sections(script) :
                   HasKey(At(reports[p][w[1]], w[2], inst[p]), "touched")}
  IN  {<<IF Aliased(reports[p][w[1]], w[2]).found THEN 0 ELSE w[1], w[2]>> : w \in marked}

\* the caller marks a section of one of its reports:
\* report[...]["touched"] = "<the number of the report>"
CallerTouches(p, i, path) ==
  /\ Cardinality(Writes(p)) < MaxWrites
  /\ CallerSets(p, i, path, "touched", Str(ToString(i)))

\* what json.dump makes of the report save_report is writing
Encoding(p) == iterencode_chunks(reports[p][handle[p].report], 0, inst[p])

Running == [t |-> "running"]

Raise(e) == [t |-> "raise", e |-> e]

Remember(record, call) ==
  IF Len(record) < MaxCalls THEN Append(record, call) ELSE Append(Tail(record), call)

\* the call in progress has returned or raised
Outcome(record, ret) == [record EXCEPT ![Len(record)].ret = ret]

CallExtract(p, k) ==
  /\ pc[p] = "caller"
  /\ Constructed(p)
  /\ LET c == call_extract(script, k, inst[p])
     IN  /\ inst' = [inst EXCEPT ![p] = c.self]
         /\ calls' = [calls EXCEPT ![p] =
              Remember(@, [op |-> ExtractNames(script)[k], args |-> <<>>, ret |-> c.ret])]
  /\ UNCHANGED <<script, installed, now, fs, pc, reports, handle, stdout, log, failed_at,
                 trace, exit_file>>

\* save_report(reports[i]) or save_report(reports[i], arg):
\* with open(filename, 'w') as f; the caller saves as long as the log holds
\* fewer than MaxCalls records
CallSaveOpen(p, i, arg) ==
  /\ pc[p] = "caller"
  /\ i \in 1..Len(reports[p])
  /\ Len(log[p]) < MaxCalls
  /\ LET name == save_report_filename(script, arg)
         o == open_w(fs[name])
     IN  /\ fs' = [fs EXCEPT ![name] = o.file]
         /\ handle' = [handle EXCEPT ![p] =
              [open |-> TRUE, name |-> name, pos |-> o.pos, report |-> i, flushed |-> 0]]
  /\ calls' = [calls EXCEPT ![p] =
       Remember(@, [op |-> "save_report", args |-> <<i, arg>>, ret |-> Running])]
  /\ pc' = [pc EXCEPT ![p] = "caller.dump"]
  /\ UNCHANGED <<script, installed, now, inst, reports, stdout, log, failed_at, trace, exit_file>>

\* open() raises PermissionError (an OSError): no file is touched, the
\* caller gets the exception
CallSaveOpenFails(p, i, arg) ==
  /\ pc[p] = "caller"
  /\ i \in 1..Len(reports[p])
  /\ calls' = [calls EXCEPT ![p] =
       Remember(@, [op |-> "save_report", args |-> <<i, arg>>, ret |-> Raise("PermissionError")])]
  /\ UNCHANGED <<script, installed, now, fs, pc, inst, reports, handle, stdout, log, failed_at,
                 trace, exit_file>>

\* json.dump(report, f, indent=2)
CallSaveDump(p) ==
  /\ pc[p] = "caller.dump"
  /\ ~Encoding(p).raised
  /\ LET h == handle[p]
         doc == Document(p)
         n == FlushedByDump(doc)
     IN  /\ fs' = [fs EXCEPT ![h.name] = File(WriteAt(@.data, h.pos, SubSeq(doc, 1, n)))]
         /\ handle' = [handle EXCEPT ![p] = [h EXCEPT !.flushed = n]]
  /\ pc' = [pc EXCEPT ![p] = "caller.close"]
  /\ UNCHANGED <<calls, script, installed, now, inst, reports, stdout, log, failed_at, trace,
                 exit_file>>

\* json.dump comes to a value it cannot serialize: TypeError leaves the
\* with block, which closes the file and so writes what was encoded
CallSaveDumpRaises(p) ==
  /\ pc[p] = "caller.dump"
  /\ Encoding(p).raised
  /\ LET h == handle[p]
     IN  fs' = [fs EXCEPT ![h.name] = File(WriteAt(@.data, h.pos, Encoding(p).text))]
  /\ handle' = [handle EXCEPT ![p] = NoHandle]
  /\ calls' = [calls EXCEPT ![p] = Outcome(@, Raise("TypeError"))]
  /\ pc' = [pc EXCEPT ![p] = "caller"]
  /\ UNCHANGED <<script, installed, now, inst, reports, stdout, log, failed_at, trace, exit_file>>

\* a write inside json.dump raises OSError (disk full)
CallSaveDumpFails(p) ==
  /\ pc[p] = "caller.dump"
  /\ LET h == handle[p]
         doc == Encoding(p).text
     IN  /\ FlushedByDump(doc) > 0
         /\ \E n \in PartialLengths(0, FlushedByDump(doc)) :
              fs' = [fs EXCEPT ![h.name] = File(WriteAt(@.data, h.pos, SubSeq(doc, 1, n)))]
  /\ handle' = [handle EXCEPT ![p] = NoHandle]
  /\ calls' = [calls EXCEPT ![p] = Outcome(@, Raise("OSError"))]
  /\ pc' = [pc EXCEPT ![p] = "caller"]
  /\ UNCHANGED <<script, installed, now, inst, reports, stdout, log, failed_at, trace, exit_file>>

\* leaving the with block, the log record (equity tracker), return filename
CallSaveClose(p) ==
  /\ pc[p] = "caller.close"
  /\ LET h == handle[p]
         doc == Document(p)
     IN  /\ fs' = [fs EXCEPT ![h.name] =
              File(WriteAt(@.data, h.pos + h.flushed, SubSeq(doc, h.flushed + 1, Len(doc))))]
         /\ log' = [log EXCEPT ![p] = @ \o SavedRecord(script, h.name)]
         /\ calls' = [calls EXCEPT ![p] = Outcome(@, Str(h.name))]
  /\ handle' = [handle EXCEPT ![p] = NoHandle]
  /\ pc' = [pc EXCEPT ![p] = "caller"]
  /\ UNCHANGED <<script, installed, now, inst, reports, stdout, failed_at, trace, exit_file>>

\* the flush inside close() raises OSError
CallSaveCloseFails(p) ==
  /\ pc[p] = "caller.close"
  /\ LET h == handle[p]
         doc == Document(p)
     IN  \E n \in PartialLengths(h.flushed, Len(doc)) :
           fs' = [fs EXCEPT ![h.name] =
             File(WriteAt(@.data, h.pos + h.flushed, SubSeq(doc, h.flushed + 1, n)))]
  /\ handle' = [handle EXCEPT ![p] = NoHandle]
  /\ calls' = [calls EXCEPT ![p] = Outcome(@, Raise("OSError"))]
  /\ pc' = [pc EXCEPT ![p] = "caller"]
  /\ UNCHANGED <<script, installed, now, inst, reports, stdout, log, failed_at, trace, exit_file>>

\* a caller that extracts, generates one report and saves it
NextExtract ==
  \E p \in Procs :
    \/ CallConstruct(p)
    \/ \E k \in 1..Len(Extracts(script)) : CallExtract(p, k)
    \/ Len(reports[p]) < 1 /\ CallGenerate(p)
    \/ CallSaveOpen(p, 1, "")
    \/ CallSaveDump(p)
    \/ CallSaveClose(p)

SpecExtract == InitCalls /\ [][NextExtract]_vars

\* a caller that saves one report, which may hold a value json cannot
\* serialize, on a disk where every step of the write may fail
NextSaveFails ==
  \E p \in Procs :
    \/ CallConstruct(p)
    \/ Len(reports[p]) < 1 /\ CallGenerate(p)
    \/ CallerSets(p, 1, <<>>, "reviewed_by", Unserializable)
    \/ CallSaveOpen(p, 1, "")
    \/ CallSaveOpenFails(p, 1, "")
    \/ CallSaveDump(p)
    \/ CallSaveDumpRaises(p)
    \/ CallSaveDumpFails(p)
    \/ CallSaveClose(p)
    \/ CallSaveCloseFails(p)

SpecSaveFails == InitCalls /\ [][NextSaveFails]_vars

\* a caller that saves one report under the default name and under a name
\* of its own, on a disk where every step of the write may fail
NextSave ==
  \E p \in Procs :
    \/ ~Constructed(p) /\ CallConstruct(p)
    \/ Len(reports[p]) < 1 /\ CallGenerate(p)
    \/ \E arg \in {"", CallerFilename} :
         \/ CallSaveOpen(p, 1, arg)
         \/ CallSaveOpenFails(p, 1, arg)
    \/ CallSaveDump(p)
    \/ CallSaveDumpFails(p)
    \/ CallSaveClose(p)
    \/ CallSaveCloseFails(p)

SpecSave == InitCalls /\ [][NextSave]_vars

\* a caller that generates two reports and saves the first again and
\* again, under two names, while the clock moves
NextStamp ==
  \/ \E p \in Procs :
       \/ ~Constructed(p) /\ CallConstruct(p)
       \/ Len(reports[p]) < 2 /\ CallGenerate(p)
       \/ \E arg \in {"", CallerFilename} : CallSaveOpen(p, 1, arg)
       \/ CallSaveDump(p)
       \/ CallSaveClose(p)
  \/ ClockStep

SpecStamp == InitCalls /\ [][NextStamp]_vars

\* the fields of instance p that no longer hold what the constructor set
Reassigned(p) ==
  LET made == construct(script)
  IN  {f \in DOMAIN inst[p] : inst[p][f] # made[f]}

\* how many fields of the instances have other values than the constructor
\* gave them
Reassignments ==
  LET made == construct(script)
  IN  Cardinality({w \in Procs \X DOMAIN made : inst[w[1]][w[2]] # made[w[2]]})

\* the fields of the classes
Fields == {"county", "county_location", "pw_department", "pw_address", "officials",
           "jurisdiction", "contract_type", "legal_framework",
           "company_name", "wbe_license", "contact_email", "phone", "location",
           "active_contracts", "historical_contracts", "competitors", "county_contacts"}

\* the caller executes instance.f = value
CallerAssigns(p, f, value) ==
  /\ pc[p] = "caller"
  /\ Constructed(p)
  /\ f \in DOMAIN inst[p]
  /\ inst' = [inst EXCEPT ![p][f] = value]
  /\ UNCHANGED <<calls, script, installed, now, fs, pc, reports, handle, stdout, log, failed_at,
                 trace, exit_file>>

\* a value for field f that the constructor did not give it
OtherValue(f) ==
  IF f = "officials" THEN Dict(<<<<"clerk", Str("other")>>>>) ELSE Str("other")

\* MaxRuns callers, each with an instance of its own as the constructor
\* left it
InitFields ==
  /\ script \in Scripts
  /\ installed = ThirdPartyImports(script)
  /\ now \in 0..MaxClock
  /\ inst = [p \in Procs |-> construct(script)]
  /\ reports = [p \in Procs |-> <<>>]
  /\ handle = [p \in Procs |-> NoHandle]
  /\ stdout = [p \in Procs |-> ""]
  /\ log = [p \in Procs |-> <<>>]
  /\ failed_at = [p \in Procs |-> "none"]
  /\ trace = [p \in Procs |-> <<>>]
  /\ exit_file = [p \in Procs |-> NoFile]
  /\ calls = [p \in Procs |-> <<>>]
  /\ fs = [f \in FileNames |-> NoFile]
  /\ pc = [p \in Procs |-> "caller"]

\* callers that give the fields of their instances other values, MaxWrites
\* fields at most between them, and generate a report each
NextFields ==
  \/ /\ Reassignments < MaxWrites
     /\ \E p \in Procs, f \in Fields : CallerAssigns(p, f, OtherValue(f))
  \/ \E p \in Procs : Len(reports[p]) < 1 /\ CallGenerate(p)

SpecFields == InitFields /\ [][NextFields]_vars

\* a caller that generates two reports on one instance and changes them
NextAlias ==
  \E p \in Procs :
    \/ CallConstruct(p)
    \/ Len(reports[p]) < 2 /\ CallGenerate(p)
    \/ \E i \in 1..2 : \E path \in Sections(script) : CallerTouches(p, i, path)

SpecAlias == InitCalls /\ [][NextAlias]_vars

(***************************************************************************)
(* Two runs of the script started together in one working directory: each  *)
(* is a process of its own, and the scheduler interleaves their steps.     *)
(***************************************************************************)
InitConcurrent ==
  /\ InitEnv
  /\ installed = ThirdPartyImports(script)
  /\ fs = [f \in FileNames |-> NoFile]
  /\ pc = [p \in Procs |-> "import"]

\* the import statements of a run that waits for no other run
StartImport(p) ==
  /\ pc[p] = "import"
  /\ ThirdPartyImports(script) \subseteq installed
  /\ Completed(p, "import")
  /\ UNCHANGED <<calls, script, installed, now, fs, inst, reports, handle, stdout, log, failed_at>>

NextConcurrent ==
  \/ \E p \in Procs :
       \/ StartImport(p)
       \/ Construct(p)
       \/ Generate(p)
       \/ SaveOpen(p)
       \/ SaveDump(p)
       \/ SaveClose(p)
       \/ PrintReport(p)
       \/ LogComplete(p)
  \/ ClockStep

SpecConcurrent == InitConcurrent /\ [][NextConcurrent]_vars

(***************************************************************************)
(* Reading runs.                                                          *)
(***************************************************************************)
\* run p has completed statement stmt
Did(p, stmt) == \E i \in 1..Len(trace[p]) : trace[p][i] = stmt

\* the statement run p completed last is stmt
JustDid(p, stmt) == Len(trace[p]) > 0 /\ trace[p][Len(trace[p])] = stmt

\* the output file of run p: as the run left it, or as it is while p runs
OutputFile(p) == IF pc[p] = "done" THEN exit_file[p] ELSE fs[DefaultFilename(script)]

\* run p is the latest run that has started
Latest(p) == pc[p] # "import" /\ (IF p = MaxRuns THEN TRUE ELSE pc[p + 1] = "import")

DateGenerated(report) == Get(report, "date_generated")

(***************************************************************************)
(* The properties of the specification (spec.md), claim by claim.          *)
(***************************************************************************)

\* C1: two invocations of the report-generation operation on the same
\* instance yield reports that are equal in every field except
\* date_generated, and so serialize to the same bytes once that field is
\* left out.
C1_SameReportExceptTimestamp ==
  \A p \in Procs : \A i \in 1..Len(reports[p]) :
    LET first == Without(reports[p][1], "date_generated")
        this == Without(reports[p][i], "date_generated")
    IN  /\ Resolve(this, inst[p]) = Resolve(first, inst[p])
        /\ i = Len(reports[p]) => dumps(this, inst[p]) = dumps(first, inst[p])

\* C1 witness: a caller has generated two reports on one instance, at
\* different times
C1_Witness ==
  \E p \in Procs :
    /\ Len(reports[p]) >= 2
    /\ DateGenerated(reports[p][1]) # DateGenerated(reports[p][2])

\* the top-level keys of each script's report
TopLevelKeys(s) ==
  CASE s = "county_communications_scraper" ->
         {"title", "date_generated", "data_sources", "extracted_data", "analysis_notes"}
    [] s = "legal_documents_scraper" ->
         {"title", "date_generated", "jurisdiction", "case_focus", "extracted_contracts",
          "legal_requirements", "disputed_matters", "legal_framework", "analysis_summary"}
    [] s = "mvc_joc_tracker" ->
         {"title", "date_generated", "jurisdiction", "analysis", "communications", "metrics",
          "recommendations"}

HasExactlyKeys(v, names) ==
  /\ v.t = "dict"
  /\ Keys(v) = {Key(n) : n \in names}
  /\ Len(v.items) = Cardinality(names)

\* C2: every generated report, and the JSON file written from it once
\* parsed back, is a mapping whose top-level keys are exactly the fixed set
\* of its script.
C2_FixedTopLevelKeys ==
  \A p \in Procs :
    /\ \A i \in 1..Len(reports[p]) : HasExactlyKeys(reports[p][i], TopLevelKeys(script))
    /\ JustDid(p, "save_report") =>
         LET back == loads(fs[DefaultFilename(script)].data)
         IN  back.ok /\ HasExactlyKeys(back.v, TopLevelKeys(script))

\* C2 witness: a second run has written its report over the first run's
C2_Witness ==
  \E p \in Procs : p > 1 /\ JustDid(p, "save_report") /\ pc[1] = "done"

\* C3: the equity tracker run to completion leaves joc_equity_analysis.json
\* with analysis.findings.mvc_historical_revenue = "$250,000" and the five
\* recommendations in the order of generate_equity_report.
C3_EquityFileContent ==
  \A p \in Procs :
    (script = "mvc_joc_tracker" /\ pc[p] = "done" /\ Latest(p)) =>
      LET back == loads(exit_file[p].data)
      IN  /\ exit_file[p].exists
          /\ back.ok
          /\ Get(Get(Get(back.v, "analysis"), "findings"), "mvc_historical_revenue")
               = Str("$250,000")
          /\ Get(back.v, "recommendations") =
               List(<<Str("Request formal audit of JOC work distribution methodology"),
                      Str("Document all RFP distribution patterns for legal review"),
                      Str("File Public Contract Code Section 20104.50 payment compliance request"),
                      Str("Consider legal action for disparate contract treatment"),
                      Str("Archive all correspondence for potential litigation")>>)

\* C3 witness: a run of the equity tracker has completed
C3_Witness ==
  \E p \in Procs : script = "mvc_joc_tracker" /\ pc[p] = "done" /\ Latest(p) /\ Len(log[p]) = 2

\* C4: after save_report returns, the script's output file holds exactly
\* the serialization of the report passed in, whatever it held before, on
\* the first run and on every later one.
C4_SaveOverwrites ==
  \A p \in Procs :
    JustDid(p, "save_report") =>
      fs[DefaultFilename(script)] = File(dumps(reports[p][1], inst[p]))

\* C4 witness: a later run has saved a document shorter than the one the
\* file held before
C4_Witness ==
  \E p \in Procs :
    /\ p > 1 /\ JustDid(p, "save_report")
    /\ exit_file[p - 1].exists
    /\ Len(exit_file[p - 1].data) > Len(fs[DefaultFilename(script)].data)

\* C5: the JSON document printed to standard output is the document
\* written to the output file: the same text, followed by the newline
\* print adds.
C5_PrintedIsWritten ==
  \A p \in Procs :
    Did(p, "print") =>
      /\ OutputFile(p).exists
      /\ stdout[p] = OutputFile(p).data \o "\n"

\* C5 witness: a run has printed its report while the clock no longer
\* reads what it read when the report was generated
C5_Witness ==
  \E p \in Procs :
    /\ JustDid(p, "print")
    /\ DateGenerated(reports[p][1]) # isoformat(now)

\* C6: the only way a run can fail is an error raised in the file-write
\* step of save_report; no step before it can fail.
C6_OnlyTheWriteFails ==
  \A p \in Procs : pc[p] = "failed" => failed_at[p] \in {"open", "dump", "close"}

\* the str values inside v that are plain ASCII, as text
RECURSIVE Texts(_)
Texts(v) ==
  CASE v.t = "str" -> IF Len(v.s) = 1 /\ v.s[1].k = "ascii" THEN {v.s[1].v} ELSE {}
    [] v.t = "list" -> UNION {Texts(v.items[i]) : i \in 1..Len(v.items)}
    [] v.t = "dict" -> UNION {Texts(v.items[i][2]) : i \in 1..Len(v.items)}
    [] OTHER -> {}

\* a monetary string: a dollar amount and nothing else
IsMonetary(text) == StartsWith(text, 1, "$") /\ ~Occurs(text, " ")

\* an identifier string: one word that holds a digit
IsIdentifier(text) == ~Occurs(text, " ") /\ \E d \in 0..9 : Occurs(text, Digit(d))

\* the monetary and identifier strings of the script's source data
SourceLiterals(s) ==
  LET all == UNION ({Texts(construct(s)[f]) : f \in DOMAIN construct(s)}
                      \cup {Texts(Extracts(s)[i]) : i \in 1..Len(Extracts(s))})
  IN  {text \in all : IsMonetary(text) \/ IsIdentifier(text)}

\* C7: every literal monetary string and identifier string of a script's
\* source data, constructor fields included, appears unmodified in the
\* script's serialized report.
C7_SourceLiteralsAppear ==
  \A p \in Procs :
    JustDid(p, "save_report") =>
      LET doc == fs[DefaultFilename(script)].data
          written == Texts(loads(doc).v)
      IN  \A text \in SourceLiterals(script) :
            \/ text \in written /\ EscapeRange(text, 1, Len(text)) = text
            \/ Occurs(doc, text)

\* C8: parsing the written file and serializing the result again
\* reproduces the file byte for byte, and the parsed value is the report:
\* key order, list order, the integer 2 and the non-ASCII dash survive.
C8_RoundTrip ==
  \A p \in Procs :
    JustDid(p, "save_report") =>
      LET doc == fs[DefaultFilename(script)].data
          back == loads(doc)
      IN  /\ back.ok
          /\ dumps(back.v, <<>>) = doc
          /\ back.v = Resolve(reports[p][1], inst[p])

\* C8 witness: the county script has saved its report, whose second thread
\* subject holds U+2013
C8_Witness ==
  \E p \in Procs :
    /\ JustDid(p, "save_report")
    /\ script = "county_communications_scraper"
    /\ Get(Get(Get(Get(reports[p][1], "extracted_data"), "communications"),
               "communication_thread_2"), "subject")
         = StrOf(<<Ascii("Contract Timeline and RFP Opportunities "), Chr(8211), Ascii(" JOC 025")>>)
    /\ Occurs(fs[DefaultFilename(script)].data, "Opportunities \\u2013 JOC 025")

\* C9: a run is one linear sequence construct, extract and compose,
\* serialize to file, print, without retry; the write comes before the
\* print, so a run that has printed has written the complete file and a run
\* whose write failed has printed nothing.
C9_LinearRun ==
  \A p \in Procs :
    /\ \E n \in 0..6 :
         trace[p] = SubSeq(<<"import", "construct", "generate", "save_report", "print",
                             "log_complete">>, 1, n)
    /\ stdout[p] # "" => Did(p, "print")
    /\ pc[p] = "failed" => stdout[p] = ""
    /\ (Did(p, "print") /\ Latest(p)) =>
         /\ Did(p, "save_report")
         /\ OutputFile(p) = File(dumps(reports[p][1], inst[p]))

\* C9 witness: one run has printed its report and another failed in the
\* write
C9_Witness ==
  \E p, q \in Procs :
    /\ Did(p, "print")
    /\ pc[q] = "failed" /\ failed_at[q] \in {"dump", "close"}

\* C10: with date_generated held fixed, a second run leaves the output
\* file and its standard output identical to those of the run before it.
C10_IdempotentRuns ==
  \A p, q \in Procs :
    (/\ p < q
     /\ pc[p] = "done" /\ pc[q] = "done"
     /\ DateGenerated(reports[p][1]) = DateGenerated(reports[q][1])) =>
      /\ exit_file[q] = exit_file[p]
      /\ stdout[q] = stdout[p]

\* C10 witness: two runs have completed with the same date_generated
C10_Witness ==
  \E p, q \in Procs :
    /\ p < q
    /\ pc[p] = "done" /\ pc[q] = "done"
    /\ DateGenerated(reports[p][1]) = DateGenerated(reports[q][1])
    /\ exit_file[q].exists

\* C11: two runs of the same script with their steps interleaved do not
\* affect each other: once both have finished, each has printed its own
\* report, and the output file is the complete serialization of the report
\* of one of the two, not a mixture and not truncated.
C11_ConcurrentRunsIndependent ==
  (\A p \in Procs : pc[p] = "done") =>
    /\ \A p \in Procs : stdout[p] = print_json(reports[p][1], inst[p])
    /\ \E p \in Procs : fs[DefaultFilename(script)] = File(dumps(reports[p][1], inst[p]))

\* the calls of extract operations in the caller's record
ExtractCalls(p) == {n \in 1..Len(calls[p]) : calls[p][n].op # "save_report"}

\* C12: the extract operations have no effect on the instance and return
\* the same mapping on every call: after any sequence of extract, generate
\* and save_report calls every field the constructor set has the value it
\* had after construction, and two calls of one extract operation returned
\* equal mappings.
C12_ExtractsKeepData ==
  \A p \in Procs :
    Constructed(p) =>
      /\ inst[p] = construct(script)
      /\ \A a, b \in ExtractCalls(p) :
           calls[p][a].op = calls[p][b].op =>
             /\ calls[p][a].ret.t = "dict"
             /\ calls[p][a].ret = calls[p][b].ret

\* C12 witness: a caller has generated and saved a report and then called
\* one extract operation twice
C12_Witness ==
  \E p \in Procs :
    /\ Len(reports[p]) = 1
    /\ fs[DefaultFilename(script)].exists
    /\ Len(calls[p]) = 2
    /\ ExtractCalls(p) = {1, 2}
    /\ calls[p][1].op = calls[p][2].op

\* value w is v or lies somewhere inside v
RECURSIVE Contains(_, _)
Contains(v, w) ==
  \/ v = w
  \/ v.t = "list" /\ \E i \in 1..Len(v.items) : Contains(v.items[i], w)
  \/ v.t = "dict" /\ \E i \in 1..Len(v.items) : Contains(v.items[i][2], w)

\* a reading of the clock as isoformat() prints it
Timestamps == {isoformat(c) : c \in 0..MaxClock}

\* the number of fields of v, at any depth, that hold a timestamp
RECURSIVE CountTimestamps(_)
CountTimestamps(v) ==
  LET Sum(f, n) ==
        LET S[i \in 0..n] == IF i = 0 THEN 0 ELSE S[i - 1] + f[i]
        IN  S[n]
  IN  CASE v.t = "str" -> IF v \in Timestamps THEN 1 ELSE 0
        [] v.t = "list" ->
             Sum([i \in 1..Len(v.items) |-> CountTimestamps(v.items[i])], Len(v.items))
        [] v.t = "dict" ->
             Sum([i \in 1..Len(v.items) |-> CountTimestamps(v.items[i][2])], Len(v.items))
        [] OTHER -> 0

\* C13: the report-generation operation composes the output of every
\* extract operation of its class: each extract operation's value lies
\* unchanged somewhere in every generated report, and the report holds
\* exactly one timestamp field besides, date_generated.
C13_ReportComposesExtracts ==
  \A p \in Procs : \A i \in 1..Len(reports[p]) :
    LET report == Resolve(reports[p][i], inst[p])
    IN  /\ \A k \in 1..Len(Extracts(script)) : Contains(report, Extracts(script)[k])
        /\ DateGenerated(report) \in Timestamps
        /\ CountTimestamps(report) = 1

\* C13 witness: the legal script, whose class has five extract operations,
\* has generated a report
C13_Witness ==
  \E p \in Procs :
    /\ script = "legal_documents_scraper"
    /\ Len(reports[p]) >= 1
    /\ Get(Get(reports[p][1], "legal_requirements"), "contract_code")
         = extract_contract_code_requirements

\* the latest call in the caller's record
LastCall(p) == calls[p][Len(calls[p])]

\* text is the beginning of doc
IsPrefix(text, doc) == Len(text) <= Len(doc) /\ SubSeq(doc, 1, Len(text)) = text

\* C14: save_report is not atomic and keeps no backup.  The file is
\* truncated when it is opened, before any byte is serialized; when the
\* write or the serialization then fails, the exception reaches the caller
\* and the file is left empty or holding the beginning of the new
\* document, not what it held before the call.
C14_SaveNotAtomic ==
  \A p \in Procs :
    /\ pc[p] = "caller.dump" => fs[handle[p].name] = File("")
    /\ (/\ pc[p] = "caller" /\ Len(calls[p]) > 0
        /\ LastCall(p).op = "save_report"
        /\ LastCall(p).ret \in {Raise("OSError"), Raise("TypeError")}) =>
         LET file == fs[save_report_filename(script, LastCall(p).args[2])]
             made == iterencode_chunks(reports[p][LastCall(p).args[1]], 0, inst[p])
         IN  /\ file.exists
             /\ IsPrefix(file.data, made.text)
             /\ ~made.raised => Len(file.data) < Len(made.text)
             /\ LastCall(p).ret = Raise("TypeError") => made.raised /\ file.data = made.text

\* C14 witness: a save that wrote the whole document was followed by one
\* that failed, and the file now holds part of the document
C14_Witness ==
  \E p \in Procs :
    /\ pc[p] = "caller" /\ Len(calls[p]) = 2
    /\ calls[p][1].op = "save_report" /\ calls[p][1].ret = Str(DefaultFilename(script))
    /\ calls[p][2].op = "save_report" /\ calls[p][2].ret = Raise("TypeError")
    /\ Len(fs[DefaultFilename(script)].data) > 0

\* section path is the instance's own object in every report
IsShared(s, path) ==
  s = "county_communications_scraper" /\ path = <<"extracted_data", "officials">>

\* C15: in the county scraper the officials section of a report is the
\* instance's own officials mapping, so a change made to it through one
\* report shows in the instance and in every report of that instance,
\* generated before or after; every other section, and every section of a
\* report of the legal script and the equity tracker, is built for the
\* one report: a change made to it through report i shows in report i
\* only.
C15_OfficialsShared ==
  \A p \in Procs : \A i \in 1..Len(reports[p]) : \A path \in Sections(script) :
    LET section == Resolve(At(reports[p][i], path, inst[p]), inst[p])
        fresh == Resolve(At(generate_report(script, 0), path, construct(script)),
                         construct(script))
    IN  /\ Without(section, "touched") = fresh
        /\ IF IsShared(script, path)
           THEN /\ section = inst[p].officials
                /\ \A j \in 1..Len(reports[p]) :
                     Resolve(At(reports[p][j], path, inst[p]), inst[p]) = section
           ELSE HasKey(section, "touched") => Get(section, "touched") = Str(ToString(i))

\* C15 witness: the county scraper has generated two reports; the officials
\* were changed through the first and the communications through the
\* second
C15_Witness ==
  \E p \in Procs :
    /\ script = "county_communications_scraper"
    /\ Len(reports[p]) = 2
    /\ Get(inst[p].officials, "touched") = Str("1")
    /\ Writes(p) = {<<0, <<"extracted_data", "officials">>>>,
                    <<2, <<"extracted_data", "communications">>>>}

\* the report as json.dump sees it, without its date_generated
Undated(p, i) == Without(Resolve(reports[p][i], inst[p]), "date_generated")

\* C16: the report does not depend on what the constructor set, except for
\* the county officials: reports of two instances of MVPContractorTracker
\* or LegalDocumentsScraper whose fields differ are equal in every field
\* but date_generated, and reports of two CountyOfficialsScraper instances
\* are when the officials are equal.  The legal report's jurisdiction is a
\* literal of its own and its legal_framework is the ENS LEGIS mapping,
\* not the field of that name.
C16_ReportIgnoresFields ==
  \A p, q \in Procs :
    (Len(reports[p]) >= 1 /\ Len(reports[q]) >= 1) =>
      /\ script # "county_communications_scraper" => Undated(p, 1) = Undated(q, 1)
      /\ (/\ script = "county_communications_scraper"
          /\ inst[p].officials = inst[q].officials) => Undated(p, 1) = Undated(q, 1)
      /\ script = "legal_documents_scraper" =>
           /\ Get(Undated(p, 1), "jurisdiction") = Str("Contra Costa County, California")
           /\ Get(Undated(p, 1), "legal_framework") = extract_ens_legis_framework

\* C16 witness: two instances of the legal scraper that differ in
\* jurisdiction and legal_framework have each generated a report
C16_Witness ==
  \E p, q \in Procs :
    /\ script = "legal_documents_scraper"
    /\ Len(reports[p]) >= 1 /\ Len(reports[q]) >= 1
    /\ Reassigned(p) = {"jurisdiction", "legal_framework"}
    /\ Reassigned(q) = {}

\* the file a call of save_report is to write: the name passed, or the
\* default name of the script when none is
NamedFile(call) ==
  IF call.args[2] # "" THEN call.args[2]
  ELSE CASE script = "county_communications_scraper" -> "county_communications_extract.json"
         [] script = "legal_documents_scraper" -> "legal_analysis_extract.json"
         [] script = "mvc_joc_tracker" -> "joc_equity_analysis.json"

\* a step of a call of save_report by caller p
SaveStep(p) ==
  \/ pc[p] \in {"caller.dump", "caller.close"}
  \/ pc'[p] \in {"caller.dump", "caller.close"}
  \/ calls'[p] # calls[p] /\ calls'[p] # <<>>

\* C17: save_report writes the file its filename argument names, the
\* default file of the script when there is none, and no other file; it
\* returns that name and changes neither the report nor the instance.  The
\* equity tracker logs "Report saved" when the write has completed and at
\* no other time.
C17_SaveWritesNamedFile ==
  [][\A p \in Procs :
       /\ SaveStep(p) =>
            LET call == calls'[p][Len(calls'[p])]
            IN  /\ call.op = "save_report"
                /\ \A f \in FileNames : f # NamedFile(call) => fs'[f] = fs[f]
                /\ reports'[p] = reports[p] /\ inst'[p] = inst[p]
                /\ call.ret.t = "str" =>
                     /\ call.ret = Str(NamedFile(call))
                     /\ fs'[NamedFile(call)] = File(dumps(reports[p][call.args[1]], inst[p]))
                /\ IF script = "mvc_joc_tracker" /\ call.ret.t = "str"
                   THEN log'[p] = Append(log[p], "INFO:__main__:Report saved: " \o NamedFile(call))
                   ELSE log'[p] = log[p]
       /\ ~SaveStep(p) => log'[p] = log[p]]_vars

\* C17 witness: the equity tracker's save under the default name failed in
\* the write, and the save under the caller's name that followed returned
C17_Witness ==
  \E p \in Procs :
    /\ script = "mvc_joc_tracker"
    /\ pc[p] = "caller" /\ Len(calls[p]) = 2
    /\ calls[p][1] = [op |-> "save_report", args |-> <<1, "">>, ret |-> Raise("OSError")]
    /\ calls[p][2] = [op |-> "save_report", args |-> <<1, CallerFilename>>,
                      ret |-> Str(CallerFilename)]
    /\ fs[DefaultFilename(script)].exists
    /\ fs[DefaultFilename(script)] # fs[CallerFilename]
    /\ Len(log[p]) = 1

\* ord(c) of a printable character
Ord(c) == CHOOSE n \in 32..126 : IsPrintable(n) /\ PrintableChar(n) = c

\* a <= b for two str of printable characters, as Python compares them
StrLeq(a, b) ==
  LET x == a.s[1].v
      y == b.s[1].v
      differ == {i \in 1..Len(x) : i <= Len(y) /\ CharAt(x, i) # CharAt(y, i)}
  IN  IF differ = {} THEN Len(x) <= Len(y)
      ELSE LET i == CHOOSE j \in differ : \A k \in differ : j <= k
           IN  Ord(CharAt(x, i)) < Ord(CharAt(y, i))

\* the saves of its first report in the caller's record that have returned
ReturnedSaves(p) ==
  {n \in 1..Len(calls[p]) : calls[p][n].op = "save_report" /\ calls[p][n].ret.t = "str"}

\* the file the n-th call of the caller's record wrote last, if no later
\* call of the record has opened it
LastWrittenBy(p, n) ==
  \A m \in (n + 1)..Len(calls[p]) : NamedFile(calls[p][m]) # NamedFile(calls[p][n])

\* every save of the first report that has returned left the serialization
\* of the report as it was generated, so two files saved from it at
\* different times are the same, byte for byte
SavedAsGenerated ==
  \A p \in Procs :
    /\ \A n \in ReturnedSaves(p) :
         LastWrittenBy(p, n) =>
           fs[NamedFile(calls[p][n])] = File(dumps(reports[p][1], inst[p]))
    /\ \A n, m \in ReturnedSaves(p) :
         (LastWrittenBy(p, n) /\ LastWrittenBy(p, m)) =>
           fs[NamedFile(calls[p][n])] = fs[NamedFile(calls[p][m])]

\* C18 as stated: the timestamp is read once, when the report is generated,
\* so saving the same report at any later time writes the same bytes; and
\* the date_generated values of two reports generated by separate calls
\* are non-decreasing in call order.
C18_TimestampOnceAndOrdered ==
  /\ SavedAsGenerated
  /\ \A p \in Procs : \A i, j \in 1..Len(reports[p]) :
       i < j => StrLeq(DateGenerated(reports[p][i]), DateGenerated(reports[p][j]))

\* C18 as amended: the timestamp is read once, when the report is
\* generated, and is the wall clock's reading at that call; it never
\* changes afterwards, so saving the same report at any later time writes
\* the same bytes.  The date_generated of a later report is not less than
\* that of an earlier one if the wall clock at the later call reads no less
\* than it read at the earlier call; a wall clock that was set back in
\* between gives the later report the lesser value.
C18_TimestampOnce ==
  /\ []SavedAsGenerated
  /\ [][\A p \in Procs :
          /\ \A i \in 1..Len(reports[p]) :
               i <= Len(reports'[p]) => DateGenerated(reports'[p][i]) = DateGenerated(reports[p][i])
          /\ Len(reports'[p]) > Len(reports[p]) =>
               LET new == DateGenerated(reports'[p][Len(reports'[p])])
               IN  /\ Len(reports'[p]) = Len(reports[p]) + 1
                   /\ new = isoformat(now)
                   /\ \A i \in 1..Len(reports[p]) : \A c \in 0..MaxClock :
                        (DateGenerated(reports[p][i]) = isoformat(c) /\ c <= now) =>
                          StrLeq(DateGenerated(reports[p][i]), new)]_vars

\* C18 witness: the first report was saved under both names, the second
\* report carries another date_generated, and the clock no longer reads
\* what it read when the first was generated
C18_Witness ==
  \E p \in Procs :
    /\ pc[p] = "caller"
    /\ Len(reports[p]) = 2
    /\ DateGenerated(reports[p][1]) # DateGenerated(reports[p][2])
    /\ DateGenerated(reports[p][1]) # isoformat(now)
    /\ ReturnedSaves(p) = {1, 2}
    /\ calls[p][1].args[2] # calls[p][2].args[2]

====
